---- MODULE Spec2Model ----
(***************************************************************************)
(* A model of cesiumlang.org's build tooling:                              *)
(*   - build.js: the ignore filter, the workspace mirror, the              *)
(*     customization overlay and the debounced file watcher;               *)
(*   - the CustomFolderPage emitter (emit / partialEmit).                  *)
(* Paths are sequences of path segments; a file system is a function from  *)
(* the paths that exist to their entries.                                  *)
(***************************************************************************)
EXTENDS Integers, Sequences, FiniteSets, TLC

VARIABLES
    fs,             \* the file system: path -> entry, workspace root = <<>>
    gitignore,      \* content of .gitignore: a sequence of rules, or Unreadable
    platform,       \* process.platform: "posix" or "win32"
    pc,             \* position of main(): start, mirrored, overlaid, watching, exited, failed
    args,           \* the flags parsed from process.argv
    ignoreFilter,   \* the filter compiled by the last createGitignoreFilter call
    linkMade,       \* whether mirrorWorkspace created the build/.git link
    isReady,        \* setupWatcher: let isReady
    debounceTimer,  \* setupWatcher: let debounceTimer (NoTimer or the armed closure)
    timers,         \* number of setTimeout timers pending in the event loop
    passes,         \* the debounce callbacks in flight, each at one of its awaits
    closed,         \* watcher.close() was called
    log,            \* what console.warn / console.error have printed
    window,         \* paths of the eligible events since the timer was last idle
    lastPass,       \* the last step a debounce callback took (history)
    nPasses,        \* number of debounce callbacks started so far
    nEvents,        \* number of filesystem events raised so far
    content,        \* the content collection handed to the emitter, as slugs
    trie,           \* ctx.trie: NoTrie, or the collection the trie was built from
    written,        \* the pages the last emit / partialEmit wrote, in order
    lastEmit,       \* the last call of the emitter and its change events (history)
    children,       \* folder.children of the folder whose page list is rendered
    sorted,         \* CustomPageList: const sorted = allFiles.sort(sortFn)
    explorerSorted, \* the children after trie.sort(createCustomSortFn())
    slugArg,        \* _getFolders: the slug it is called with
    gfFolderName,   \* _getFolders: var folderName
    parentNames,    \* _getFolders: const parentFolderNames
    foldersPc,      \* position of _getFolders: idle, called, loop, returned
    explorerOpts,   \* setupExplorer: the options read from the explorer's dataset
    explorerData,   \* the content index the explorer was last set up from
    explorerTrie,   \* setupExplorer: the trie after the configured operations
    currentExplorerState, \* let currentExplorerState: entries {path, collapsed}
    localStorage,   \* the item "fileTree" of localStorage: NoItem or its string
    folderOpen,     \* the rendered folders: folder path -> its list has class "open"
    lastToggle,     \* the last toggleFolder call and what it stored (history)
    nClicks         \* number of navigations and clicks so far

buildVars == <<fs, gitignore, platform, pc, args, ignoreFilter, linkMade, log>>
watchVars == <<isReady, debounceTimer, timers, passes, closed, window, lastPass, nPasses, nEvents>>
pageVars == <<content, trie, written, lastEmit>>
listVars == <<children, sorted, explorerSorted>>
folderVars == <<slugArg, gfFolderName, parentNames, foldersPc>>
explorerVars == <<explorerOpts, explorerData, explorerTrie, currentExplorerState,
                  localStorage, folderOpen, lastToggle, nClicks>>
vars == <<buildVars, watchVars, pageVars, listVars, folderVars, explorerVars>>

(***************************************************************************)
(* Bounds of the model.                                                    *)
(***************************************************************************)
\* longest .gitignore, in rules
MaxRules == 2
\* longest path, in segments, that mkdir accepts (stands for ENAMETOOLONG)
MaxPathLen == 4

(***************************************************************************)
(* Paths                                                                   *)
(***************************************************************************)
BUILD_DIR == "build"

\* the order in which readdir lists the names of one directory
NameOrder == <<".git", "HEAD", "a.md", "build", "build.js", "content", "custom.ts",
               "key.txt", "o.ts", "old.md", "quartz", "quartz_overrides", "quartz_repo",
               "secrets", "src">>

IsPrefix(p, q) == Len(p) <= Len(q) /\ SubSeq(q, 1, Len(p)) = p

\* path.dirname on a non-empty relative path
Dirname(p) == SubSeq(p, 1, Len(p) - 1)

Basename(p) == p[Len(p)]

\* path.join(a, b)
Join(a, b) == a \o b

(***************************************************************************)
(* The ignore filter (package `ignore`, as build.js uses it).              *)
(* A rule is [neg, dirOnly, pat]: `!` prefix, trailing `/`, and the        *)
(* pattern as segments. A pattern of one segment matches that name at any  *)
(* depth, `**` as first segment likewise, any other pattern is anchored    *)
(* at the root.                                                            *)
(***************************************************************************)
Rule(neg, dirOnly, pat) == [neg |-> neg, dirOnly |-> dirOnly, pat |-> pat]

\* .gitignore as fs.readFile finds it: readable with rules, or not readable
Gitignore(readable, rules) == [readable |-> readable, rules |-> rules]

Unreadable == Gitignore(FALSE, <<>>)

\* the rules the project's .gitignore may hold
ProjectRules ==
    { Rule(FALSE, TRUE,  <<"secrets">>),     \*  secrets/
      Rule(FALSE, FALSE, <<"content">>),     \*  content
      Rule(TRUE,  FALSE, <<"build">>),       \*  !build
      Rule(TRUE,  FALSE, <<".git">>) }       \*  !.git

RECURSIVE SeqsUpTo(_, _)
SeqsUpTo(S, n) ==
    IF n = 0 THEN { <<>> }
    ELSE LET shorter == SeqsUpTo(S, n - 1)
         IN  shorter \cup { Append(s, x) : s \in shorter, x \in S }

GitignoreContents ==
    { Gitignore(TRUE, r) : r \in SeqsUpTo(ProjectRules, MaxRules) } \cup { Unreadable }

\* rule.regex.test(path): asDir says the tested string ends with a slash
RuleMatches(rule, p, asDir) ==
    /\ p # <<>>
    /\ (rule.dirOnly => asDir)
    /\ IF Len(rule.pat) = 1 THEN Basename(p) = rule.pat[1]
       ELSE IF rule.pat[1] = "**" THEN Basename(p) = rule.pat[2] /\ Len(rule.pat) = 2
       ELSE p = rule.pat

\* Ignore#_testOne: the last matching rule decides
RECURSIVE TestOne(_, _, _)
TestOne(rules, p, asDir) ==
    IF rules = <<>> THEN FALSE
    ELSE LET last == rules[Len(rules)]
         IN  IF RuleMatches(last, p, asDir) THEN ~last.neg
             ELSE TestOne(SubSeq(rules, 1, Len(rules) - 1), p, asDir)

\* Ignore#ignores(path): a path below an ignored directory is ignored, and
\* the path itself is tested as given, parents being tested as directories
Ignores(rules, p, asDir) ==
    \/ \E k \in 1..(Len(p) - 1) : TestOne(rules, SubSeq(p, 1, k), TRUE)
    \/ TestOne(rules, p, asDir)

StaticRules ==
    << Rule(FALSE, FALSE, <<"build">>),
       Rule(FALSE, FALSE, <<"src", "quartz">>),
       Rule(FALSE, FALSE, <<".git">>),
       Rule(FALSE, FALSE, <<"**", ".git">>),
       Rule(FALSE, FALSE, <<"build.js">>) >>

\* createGitignoreFilter: the static rules, then the content of .gitignore
\* createGitignoreFilter whose catch block gives up the static rules too
createGitignoreFilterNoFallback(gitignoreContent) ==
    IF gitignoreContent.readable THEN StaticRules \o gitignoreContent.rules ELSE <<>>

createGitignoreFilter(gitignoreContent) ==
    IF gitignoreContent.readable THEN StaticRules \o gitignoreContent.rules ELSE StaticRules

(***************************************************************************)
(* The file system                                                         *)
(***************************************************************************)
\* F applied to the value of x, x being evaluated once
With(x, F(_)) == CHOOSE v \in { F(y) : y \in {x} } : TRUE

File(data) == [kind |-> "file", data |-> data, target |-> <<>>]
Dir        == [kind |-> "dir",  data |-> <<>>, target |-> <<>>]
Link(t)    == [kind |-> "link", data |-> <<>>, target |-> t]

Exists(f, p) == p = <<>> \/ p \in DOMAIN f

\* the path with every symbolic link on it replaced by the link's target
RECURSIVE Resolve(_, _)
Resolve(f, p) ==
    LET links == { k \in 1..Len(p) :
                     /\ SubSeq(p, 1, k) \in DOMAIN f
                     /\ f[SubSeq(p, 1, k)].kind = "link" }
    IN  IF links = {} THEN p
        ELSE LET k == CHOOSE i \in links : \A j \in links : i <= j
             IN  Resolve(f, f[SubSeq(p, 1, k)].target \o SubSeq(p, k + 1, Len(p)))

IsDirAt(f, p) == LET r == Resolve(f, p) IN r = <<>> \/ (r \in DOMAIN f /\ f[r].kind = "dir")
IsFileAt(f, p) == LET r == Resolve(f, p) IN r \in DOMAIN f /\ f[r].kind = "file"

\* fs.readdir(d): the names directly below d, in listing order
Entries(f, d) ==
    LET r == Resolve(f, d)
        names == { p[Len(p)] : p \in { q \in DOMAIN f : Len(q) = Len(r) + 1 /\ IsPrefix(r, q) } }
    IN  SelectSeq(NameOrder, LAMBDA n : n \in names)

\* fs.mkdir(p, {recursive: true}): ok iff no ancestor is a file and the
\* path is not too long; creates the missing directories
MkdirOk(f, p) ==
    /\ Len(p) <= MaxPathLen
    /\ \A k \in 1..Len(p) :
         LET q == Resolve(f, SubSeq(p, 1, k)) IN q \in DOMAIN f => f[q].kind = "dir"

RECURSIVE Mkdir(_, _)
Mkdir(f, p) ==
    IF p = <<>> THEN f
    ELSE With(Mkdir(f, Dirname(p)), LAMBDA g :
           With(Resolve(g, p), LAMBDA q :
             IF q \in DOMAIN g \/ q = <<>> THEN g ELSE (q :> Dir) @@ g))

\* everything at or below p removed (fs.rm recursive; a link is removed, not followed)
Remove(f, p) == [q \in { x \in DOMAIN f : ~IsPrefix(p, x) } |-> f[q]]

\* a step's state: the file system and what has been logged
St(f, l) == [fs |-> f, log |-> l]

Warn(st, what, p) == St(st.fs, st.log \cup { <<what, p>> })

(***************************************************************************)
(* copyFile (build.js 41-59): mkdir of the parent, then the copy; every    *)
(* error is caught and logged. `locked` are the sources whose copy fails   *)
(* for a reason outside the model (a transient lock).                      *)
(***************************************************************************)
\* copyFile whose catch block logs nothing
copyFileSilent(st, src, dest, locked) ==
    IF src \in locked \/ ~IsFileAt(st.fs, src) \/ ~MkdirOk(st.fs, Dirname(dest)) THEN st
    ELSE St((Resolve(st.fs, dest) :> File(st.fs[Resolve(st.fs, src)].data))
              @@ Mkdir(st.fs, Dirname(dest)), st.log)

\* copyFile that leaves a destination that exists as it is
copyFileKeepExisting(st, src, dest, locked) ==
    IF ~MkdirOk(st.fs, Dirname(dest)) THEN Warn(st, "copy", src)
    ELSE With(Mkdir(st.fs, Dirname(dest)), LAMBDA g :
           With(Resolve(g, src), LAMBDA s :
             With(Resolve(g, dest), LAMBDA d :
               IF \/ src \in locked
                  \/ ~IsFileAt(g, src)
                  \/ Len(dest) > MaxPathLen
                  \/ (d \in DOMAIN g /\ g[d].kind # "file")
               THEN Warn(St(g, st.log), "copy", src)
               ELSE IF s = d \/ d \in DOMAIN g THEN St(g, st.log)
               ELSE St((d :> File(g[s].data)) @@ g, st.log))))

copyFile(st, src, dest, locked) ==
    IF ~MkdirOk(st.fs, Dirname(dest)) THEN Warn(st, "copy", src)
    ELSE With(Mkdir(st.fs, Dirname(dest)), LAMBDA g :
           With(Resolve(g, src), LAMBDA s :
             With(Resolve(g, dest), LAMBDA d :
               IF \/ src \in locked
                  \/ ~IsFileAt(g, src)
                  \/ Len(dest) > MaxPathLen
                  \/ (d \in DOMAIN g /\ g[d].kind # "file")
               THEN Warn(St(g, st.log), "copy", src)
               ELSE IF s = d THEN St(g, st.log)
               ELSE St((d :> File(g[s].data)) @@ g, st.log))))

(***************************************************************************)
(* copyDirectory (build.js 61-92). NoFilter is ignoreFilter = null.        *)
(***************************************************************************)
NoFilter == <<>>

\* copyDirectory that copies the files of src and leaves its subdirectories out
RECURSIVE copyFilesOf(_, _, _, _, _, _)
copyFilesOf(st, names, src, dest, filter, locked) ==
    IF names = <<>> THEN st
    ELSE LET srcPath == Join(src, <<Head(names)>>)
         IN  IF \/ ~Exists(st.fs, srcPath)
                \/ st.fs[srcPath].kind = "dir"
                \/ (filter # <<>> /\ Ignores(filter, srcPath, FALSE))
             THEN copyFilesOf(st, Tail(names), src, dest, filter, locked)
             ELSE With(copyFile(st, srcPath, Join(dest, <<Head(names)>>), locked), LAMBDA next :
                    copyFilesOf(next, Tail(names), src, dest, filter, locked))

copyDirectoryShallow(st, src, dest, filter, locked) ==
    IF ~MkdirOk(st.fs, dest) \/ ~IsDirAt(st.fs, src) THEN Warn(st, "copydir", src)
    ELSE With(St(Mkdir(st.fs, dest), st.log), LAMBDA made :
           copyFilesOf(made, Entries(made.fs, src), src, dest, filter, locked))

RECURSIVE copyDirectory(_, _, _, _, _)
RECURSIVE copyEntries(_, _, _, _, _, _)
copyDirectory(st, src, dest, filter, locked) ==
    IF ~MkdirOk(st.fs, dest) \/ ~IsDirAt(st.fs, src) THEN Warn(st, "copydir", src)
    ELSE With(St(Mkdir(st.fs, dest), st.log), LAMBDA made :
           copyEntries(made, Entries(made.fs, src), src, dest, filter, locked))

\* the for loop, left at the first entry whose copy has failed
RECURSIVE copyEntriesStopOnFailure(_, _, _, _, _, _)
copyEntriesStopOnFailure(st, names, src, dest, filter, locked) ==
    IF names = <<>> THEN st
    ELSE LET srcPath  == Join(src, <<Head(names)>>)
             destPath == Join(dest, <<Head(names)>>)
             rest     == Tail(names)
         IN  IF ~Exists(st.fs, srcPath)
             THEN Warn(st, "copy", srcPath)
             ELSE IF filter # NoFilter /\ Ignores(filter, srcPath, FALSE)
             THEN copyEntriesStopOnFailure(st, rest, src, dest, filter, locked)
             ELSE IF st.fs[srcPath].kind = "dir"
             THEN With(copyDirectory(st, srcPath, destPath, filter, locked), LAMBDA next :
                    IF next.log # st.log THEN next
                    ELSE copyEntriesStopOnFailure(next, rest, src, dest, filter, locked))
             ELSE With(copyFile(st, srcPath, destPath, locked), LAMBDA next :
                    IF next.log # st.log THEN next
                    ELSE copyEntriesStopOnFailure(next, rest, src, dest, filter, locked))

\* the for loop over the entries read from src
copyEntries(st, names, src, dest, filter, locked) ==
    IF names = <<>> THEN st
    ELSE LET srcPath  == Join(src, <<Head(names)>>)
             destPath == Join(dest, <<Head(names)>>)
             rest     == Tail(names)
         IN  IF ~Exists(st.fs, srcPath)
             THEN With(Warn(st, "copy", srcPath), LAMBDA next :
                    copyEntries(next, rest, src, dest, filter, locked))
             ELSE IF filter # NoFilter /\ Ignores(filter, srcPath, FALSE)
             THEN copyEntries(st, rest, src, dest, filter, locked)
             ELSE IF st.fs[srcPath].kind = "dir"
             THEN With(copyDirectory(st, srcPath, destPath, filter, locked), LAMBDA next :
                    copyEntries(next, rest, src, dest, filter, locked))
             ELSE With(copyFile(st, srcPath, destPath, locked), LAMBDA next :
                    copyEntries(next, rest, src, dest, filter, locked))

(***************************************************************************)
(* The workspace before the build                                          *)
(***************************************************************************)
Workspace0 ==
    (<<".git">> :> Dir) @@
    (<<".git", "HEAD">> :> File(<<"HEAD", 0>>)) @@
    (<<"build.js">> :> File(<<"build.js", 0>>)) @@
    (<<"content">> :> Dir) @@
    (<<"content", "a.md">> :> File(<<"a.md", 0>>)) @@
    (<<"secrets">> :> Dir) @@
    (<<"secrets", "key.txt">> :> File(<<"key.txt", 0>>)) @@
    (<<"src">> :> Dir) @@
    (<<"src", "custom.ts">> :> File(<<"custom.ts", 0>>)) @@
    (<<"src", "quartz">> :> Link(<<"quartz_repo", "quartz">>)) @@
    (<<"src", "quartz_overrides">> :> Dir) @@
    (<<"src", "quartz_overrides", "o.ts">> :> File(<<"override", 0>>)) @@
    (<<"quartz_repo">> :> Dir) @@
    (<<"quartz_repo", "quartz">> :> Dir) @@
    (<<"quartz_repo", "quartz", "o.ts">> :> File(<<"framework", 0>>))

\* a build root left over from an earlier build
DirtyBuild ==
    (<<BUILD_DIR>> :> Dir) @@
    (<<BUILD_DIR, "old.md">> :> File(<<"old.md", 0>>))

\* the sets of source files whose copy may fail during one operation
LockChoices == { {}, { <<"content", "a.md">> }, { <<"src", "custom.ts">> } }

\* the same for one run of copyCustomizations, which reads below build/src
OverlayLockChoices == { {}, { <<BUILD_DIR, "src", "custom.ts">> } }

\* the same for the run of copyCustomizations that main awaits
BuildLockChoices ==
    OverlayLockChoices \cup { { <<BUILD_DIR, "src", "quartz_overrides", "o.ts">> } }

(***************************************************************************)
(* mirrorWorkspace (build.js 94-131). linkOk: the symlink / junction to    *)
(* .git could be created (it cannot where build/.git exists). rmOk: fs.rm  *)
(* removed the build root; its failure is caught by an empty catch block.   *)
(***************************************************************************)
mirrorWorkspace(st, gitignoreContent, linkOk, locked, rmOk) ==
    With(IF rmOk THEN Mkdir(Remove(st.fs, <<BUILD_DIR>>), <<BUILD_DIR>>)
                 ELSE Mkdir(st.fs, <<BUILD_DIR>>), LAMBDA cleaned :
      With(IF linkOk /\ <<BUILD_DIR, ".git">> \notin DOMAIN cleaned
           THEN St((<<BUILD_DIR, ".git">> :> Link(<<".git">>)) @@ cleaned, st.log)
           ELSE Warn(St(cleaned, st.log), "symlink", <<BUILD_DIR, ".git">>), LAMBDA linked :
        With(createGitignoreFilter(gitignoreContent), LAMBDA filter :
          copyDirectory(linked, <<>>, <<BUILD_DIR>>, filter, locked))))

(***************************************************************************)
(* copyCustomizations (build.js 133-186), with a build directory:          *)
(* srcDir = build/src, quartzRepoDir = build/quartz_repo.                  *)
(***************************************************************************)
\* const serve, watch, noBuildDir = args.includes(...)
Args(noBuildDir, watch, serve) == [noBuildDir |-> noBuildDir, watch |-> watch, serve |-> serve]

\* main that sets the watcher up without looking at --no-build-dir
WatchModeWithoutBuildDir == args.watch \/ args.serve

\* main: if ((watch || serve) && !noBuildDir)
WatchMode == (args.watch \/ args.serve) /\ ~args.noBuildDir

SrcDir == IF args.noBuildDir THEN <<"src">> ELSE <<BUILD_DIR, "src">>
QuartzRepoDir == IF args.noBuildDir THEN <<"quartz_repo">> ELSE <<BUILD_DIR, "quartz_repo">>
OverridesDir == Join(SrcDir, <<"quartz_overrides">>)

\* the first loop: every entry of src/ but quartz and quartz_overrides
RECURSIVE copySrcEntries(_, _, _)
copySrcEntries(st, names, locked) ==
    IF names = <<>> THEN st
    ELSE LET name     == Head(names)
             srcPath  == Join(SrcDir, <<name>>)
             destPath == Join(QuartzRepoDir, <<name>>)
         IN  IF name = "quartz" \/ name = "quartz_overrides"
             THEN copySrcEntries(st, Tail(names), locked)
             ELSE IF st.fs[srcPath].kind = "dir"
             THEN With(copyDirectory(st, srcPath, destPath, NoFilter, locked), LAMBDA next :
                    copySrcEntries(next, Tail(names), locked))
             ELSE With(copyFile(st, srcPath, destPath, locked), LAMBDA next :
                    copySrcEntries(next, Tail(names), locked))

\* the second loop: the entries of src/quartz_overrides into quartz_repo/quartz;
\* a failing mkdir ends the loop silently (the inner catch)
RECURSIVE copyOverrideEntries(_, _, _)
copyOverrideEntries(st, names, locked) ==
    IF names = <<>> THEN st
    ELSE LET name     == Head(names)
             srcPath  == Join(OverridesDir, <<name>>)
             destPath == Join(QuartzRepoDir, <<"quartz", name>>)
         IN  IF st.fs[srcPath].kind = "dir"
             THEN With(copyDirectory(st, srcPath, destPath, NoFilter, locked), LAMBDA next :
                    copyOverrideEntries(next, Tail(names), locked))
             ELSE IF ~MkdirOk(st.fs, Dirname(destPath)) THEN st
             ELSE With(copyFile(st, srcPath, destPath, locked), LAMBDA next :
                    copyOverrideEntries(next, Tail(names), locked))

\* copyCustomizations without its second loop
copyCustomizationsNoOverrides(st, locked, readdirFails) ==
    IF readdirFails \/ ~IsDirAt(st.fs, SrcDir) \/ ~Exists(st.fs, Resolve(st.fs, SrcDir))
    THEN [st |-> Warn(st, "customizations", SrcDir), threw |-> TRUE]
    ELSE [st |-> copySrcEntries(st, Entries(st.fs, SrcDir), locked), threw |-> FALSE]

\* the result: the state after it, and whether it threw
copyCustomizations(st, locked, readdirFails) ==
    IF readdirFails \/ ~IsDirAt(st.fs, SrcDir) \/ ~Exists(st.fs, Resolve(st.fs, SrcDir))
    THEN [st |-> Warn(st, "customizations", SrcDir), threw |-> TRUE]
    ELSE With(copySrcEntries(st, Entries(st.fs, SrcDir), locked), LAMBDA st1 :
           [st |-> IF IsDirAt(st1.fs, OverridesDir) /\ Exists(st1.fs, OverridesDir)
                   THEN copyOverrideEntries(st1, Entries(st1.fs, OverridesDir), locked)
                   ELSE st1,
            threw |-> FALSE])

(***************************************************************************)
(* main (build.js 330-359), up to the start of the watcher                 *)
(***************************************************************************)
NoTimer == [armed |-> FALSE, event |-> "", filePath |-> <<>>]
\* no step of a debounce callback was taken yet
NoPass == [seq |-> 0, id |-> 0, event |-> "", filePath |-> <<>>, window |-> {},
           at |-> "none", done |-> FALSE, failed |-> FALSE, failures |-> 0, after |-> 0]

\* ctx.trie is undefined
NoTrie == [built |-> FALSE, files |-> {}]
\* the emitter was not called yet
NoEmit == [op |-> "none", changeEvents |-> {}, trie |-> NoTrie]

\* no content was handed to the emitter
PagesIdle ==
    /\ content = {}
    /\ trie = NoTrie
    /\ written = <<>>
    /\ lastEmit = NoEmit

\* nothing was sorted yet
NotSorted == [done |-> FALSE, list |-> <<>>]

\* _getFolders is not being called
FoldersIdle ==
    /\ slugArg = <<>>
    /\ gfFolderName = <<>>
    /\ parentNames = <<>>
    /\ foldersPc = "idle"

\* localStorage.getItem("fileTree") of a key that was never set: null
NoItem == [has |-> FALSE, text |-> <<>>]

\* localStorage.setItem("fileTree", text)
Item(text) == [has |-> TRUE, text |-> text]

\* toggleFolder was not called yet
NoToggle == [n |-> 0, at |-> 0, path |-> <<>>, collapsed |-> FALSE, state |-> <<>>]

\* no page with an explorer was loaded
NoOpts ==
    [order |-> [given |-> FALSE, fns |-> <<>>], filterFn |-> FALSE, mapFn |-> FALSE,
     useSavedState |-> FALSE, folderDefaultState |-> "collapsed"]

NoExplorerTrie == [done |-> FALSE, at |-> 0, nodes |-> <<>>, currentSlug |-> <<>>]

ExplorerIdle ==
    /\ explorerOpts = NoOpts
    /\ explorerData = <<>>
    /\ explorerTrie = NoExplorerTrie
    /\ currentExplorerState = <<>>
    /\ localStorage = NoItem
    /\ folderOpen = <<>>
    /\ lastToggle = NoToggle
    /\ nClicks = 0

ListIdle ==
    /\ children = <<>>
    /\ sorted = NotSorted
    /\ explorerSorted = NotSorted

WatchIdle ==
    /\ isReady = FALSE
    /\ debounceTimer = NoTimer
    /\ timers = 0
    /\ passes = <<>>
    /\ closed = FALSE
    /\ window = {}
    /\ lastPass = NoPass
    /\ nPasses = 0
    /\ nEvents = 0

Init ==
    /\ \E dirty \in BOOLEAN : fs = IF dirty THEN DirtyBuild @@ Workspace0 ELSE Workspace0
    /\ gitignore \in GitignoreContents
    /\ platform \in {"posix", "win32"}
    /\ pc = "start"
    /\ args = Args(FALSE, FALSE, FALSE)
    /\ ignoreFilter = NoFilter
    /\ linkMade = FALSE
    /\ log = {}
    /\ WatchIdle
    /\ FoldersIdle
    /\ ExplorerIdle
    /\ PagesIdle
    /\ ListIdle

\* await mirrorWorkspace()
MirrorWorkspace ==
    /\ pc = "start"
    /\ ~args.noBuildDir
    /\ \E linkOk \in BOOLEAN, locked \in LockChoices, rmOk \in BOOLEAN :
         \E st \in { mirrorWorkspace(St(fs, log), gitignore, linkOk, locked, rmOk) } :
             /\ fs' = st.fs
             /\ log' = st.log
             /\ linkMade' = linkOk
    /\ ignoreFilter' = createGitignoreFilter(gitignore)
    /\ pc' = "mirrored"
    /\ UNCHANGED <<pageVars, listVars, args, folderVars, explorerVars>>
    /\ UNCHANGED <<gitignore, platform, watchVars>>

\* the script is stopped after its mirrorWorkspace and started again: its
\* first step is mirrorWorkspace, over the build root the first run has left
MirrorWorkspaceAgain ==
    /\ pc = "mirrored"
    /\ \E linkOk \in BOOLEAN, locked \in LockChoices, rmOk \in BOOLEAN :
         \E st \in { mirrorWorkspace(St(fs, log), gitignore, linkOk, locked, rmOk) } :
             /\ fs' = st.fs
             /\ log' = st.log
             /\ linkMade' = (linkOk /\ (rmOk \/ <<BUILD_DIR, ".git">> \notin DOMAIN fs))
    /\ ignoreFilter' = createGitignoreFilter(gitignore)
    /\ pc' = "remirrored"
    /\ UNCHANGED <<pageVars, listVars, args, folderVars, explorerVars>>
    /\ UNCHANGED <<gitignore, platform, watchVars>>

\* await copyCustomizations(); a throw is caught by main, which exits with 1
CopyCustomizations ==
    /\ pc = "mirrored"
    /\ \E locked \in BuildLockChoices, readdirFails \in BOOLEAN :
         \E r \in { copyCustomizations(St(fs, log), locked, readdirFails) } :
             /\ fs' = r.st.fs
             /\ log' = r.st.log
             /\ pc' = IF r.threw THEN "failed" ELSE "overlaid"
    /\ UNCHANGED <<pageVars, listVars, args, folderVars, explorerVars>>
    /\ UNCHANGED <<gitignore, platform, ignoreFilter, linkMade, watchVars>>

\* the exit codes an external process ends with
ExitCodes == {0, 1, 2}

\* process.exit(1) in the catch block of main
ExitFailure == 1

\* the status the build script has ended with, or would end with
exitStatus == IF pc = "failed" THEN ExitFailure ELSE 0

\* child.on('close'): resolve on code 0, else reject with an Error that
\* main catches and prints before process.exit(1)
ChildClosed(what, code, next) ==
    IF code = 0
    THEN pc' = next /\ log' = log
    ELSE pc' = "failed" /\ log' = log \cup { <<"build failed", <<what, code>> >> }

\* runQuartzBuild: await installDependencies(cwd)
InstallDependencies ==
    /\ pc = IF WatchMode THEN "watching" ELSE "overlaid"
    /\ \E code \in ExitCodes : ChildClosed("npm install", code, "installed")
    /\ UNCHANGED <<pageVars, listVars, args, folderVars, explorerVars>>
    /\ UNCHANGED <<fs, gitignore, platform, ignoreFilter, linkMade, watchVars>>

\* runQuartzBuild: spawn('node', nodeCommand) and wait for it to close
RunQuartz ==
    /\ pc = "installed"
    /\ \E code \in ExitCodes : ChildClosed("quartz build", code, "built")
    /\ UNCHANGED <<pageVars, listVars, args, folderVars, explorerVars>>
    /\ UNCHANGED <<fs, gitignore, platform, ignoreFilter, linkMade, watchVars>>

(***************************************************************************)
(* The watch session: setupWatcher (build.js 253-328) and the SIGINT       *)
(* handler of main (build.js 343-347).                                     *)
(***************************************************************************)
\* most filesystem events of one session
MaxEvents == 2
\* most debounce callbacks in flight at once
MaxInFlight == 2

\* the .gitignore contents the watch session is explored with
WatchGitignores ==
    { Gitignore(TRUE, <<>>), Gitignore(TRUE, <<Rule(FALSE, TRUE, <<"secrets">>)>>) }

\* the files that are edited during the session
WatchPaths == { <<"content", "a.md">>, <<"src", "custom.ts">>, <<"secrets", "key.txt">> }

\* the separator of the paths chokidar reports: path.sep of the platform
Sep == IF platform = "win32" THEN "\\" ELSE "/"

\* filePath.startsWith('src/') on the reported path
StartsWithSrc(filePath) == Len(filePath) > 1 /\ filePath[1] = "src" /\ Sep = "/"

\* the `ignored` callback given to chokidar.watch
WatcherIgnored(filter, p) ==
    IF p = <<>> THEN FALSE ELSE Ignores(filter, p, FALSE)

\* the state main is in when it calls setupWatcher
AfterOverlay(gitignoreContent) ==
    With(mirrorWorkspace(St(Workspace0, {}), gitignoreContent, TRUE, {}, TRUE), LAMBDA mirrored :
      copyCustomizations(mirrored, {}, FALSE).st)

WatchInit ==
    /\ args = Args(FALSE, TRUE, FALSE)
    /\ gitignore \in WatchGitignores
    /\ \E st \in { AfterOverlay(gitignore) } : fs = st.fs /\ log = st.log
    /\ platform \in {"posix", "win32"}
    /\ pc = "overlaid"
    /\ ignoreFilter = createGitignoreFilter(gitignore)
    /\ linkMade = TRUE
    /\ WatchIdle
    /\ FoldersIdle
    /\ ExplorerIdle
    /\ PagesIdle
    /\ ListIdle

\* the watcher is set up and the process has not exited: main is past
\* setupWatcher, or further on in runQuartzBuild with the renderer spawned
Watching == pc \in {"watching", "rendering"}

\* const watcher = await setupWatcher(); process.on('SIGINT', ...)
SetupWatcher ==
    /\ pc = "overlaid"
    /\ WatchMode
    /\ pc' = "watching"
    /\ ignoreFilter' = createGitignoreFilter(gitignore)
    /\ isReady' = FALSE
    /\ debounceTimer' = NoTimer
    /\ UNCHANGED <<pageVars, listVars, args, folderVars, explorerVars>>
    /\ UNCHANGED <<fs, gitignore, platform, linkMade, log,
                   timers, passes, closed, window, lastPass, nPasses, nEvents>>

\* main of `node build.js`: the one-shot build
Next ==
    \/ MirrorWorkspace
    \/ CopyCustomizations
    \/ MirrorWorkspaceAgain
    \/ InstallDependencies
    \/ RunQuartz

Spec == Init /\ [][Next]_vars

\* the .gitignore contents main is explored with under every flag
MainGitignores == WatchGitignores \cup { Unreadable }

MainInit ==
    /\ args \in { Args(n, w, s) : n \in BOOLEAN, w \in BOOLEAN, s \in BOOLEAN }
    /\ fs = Workspace0
    /\ gitignore \in MainGitignores
    /\ platform \in {"posix", "win32"}
    /\ pc = "start"
    /\ ignoreFilter = NoFilter
    /\ linkMade = FALSE
    /\ log = {}
    /\ WatchIdle
    /\ FoldersIdle
    /\ ExplorerIdle
    /\ PagesIdle
    /\ ListIdle

\* main: `if (!noBuildDir)` is false, mirrorWorkspace is not called
SkipMirror ==
    /\ pc = "start"
    /\ args.noBuildDir
    /\ pc' = "mirrored"
    /\ UNCHANGED <<pageVars, listVars, args, folderVars, explorerVars>>
    /\ UNCHANGED <<fs, gitignore, platform, ignoreFilter, linkMade, log, watchVars>>

\* main under every combination of --no-build-dir, --watch and --serve
MainNext ==
    \/ MirrorWorkspace
    \/ SkipMirror
    \/ CopyCustomizations
    \/ SetupWatcher
    \/ InstallDependencies
    \/ RunQuartz

SpecMain == MainInit /\ [][MainNext]_vars

\* watcher.on('ready')
WatcherReady ==
    /\ Watching /\ ~closed /\ ~isReady
    /\ isReady' = TRUE
    /\ UNCHANGED <<pageVars, listVars, args, folderVars, explorerVars>>
    /\ UNCHANGED <<buildVars, debounceTimer, timers, passes, closed, window, lastPass,
                   nPasses, nEvents>>

\* clearTimeout(handle): the timer is cancelled if it is still pending
clearTimeout(pending, handle) == IF handle.armed THEN pending - 1 ELSE pending

\* OnAll without `if (!isReady) return`
OnAllUnguarded(event, filePath) ==
    /\ debounceTimer' = [armed |-> TRUE, event |-> event, filePath |-> filePath]
    /\ timers' = clearTimeout(timers, debounceTimer) + 1
    /\ window' = window \cup {filePath}

\* OnAll without clearTimeout(debounceTimer)
OnAllNoClear(event, filePath) ==
    IF ~isReady
    THEN UNCHANGED <<debounceTimer, timers, window>>
    ELSE /\ debounceTimer' = [armed |-> TRUE, event |-> event, filePath |-> filePath]
         /\ timers' = timers + 1
         /\ window' = window \cup {filePath}

\* the body of watcher.on('all', (event, filePath) => ...)
OnAll(event, filePath) ==
    IF ~isReady
    THEN UNCHANGED <<debounceTimer, timers, window>>
    ELSE /\ debounceTimer' = [armed |-> TRUE, event |-> event, filePath |-> filePath]
         /\ timers' = clearTimeout(timers, debounceTimer) + 1
         /\ window' = window \cup {filePath}

\* the workspace after the edit that raises the event
Edited(f, event, p, stamp) ==
    CASE event = "add"    -> (p :> File(<<Basename(p), stamp>>)) @@ Mkdir(f, Dirname(p))
      [] event = "change" -> (p :> File(<<Basename(p), stamp>>)) @@ f
      [] event = "unlink" -> Remove(f, p)

\* a file of the workspace is added, changed or removed; chokidar reports
\* it unless the `ignored` callback excludes the path
FsEvent ==
    /\ Watching /\ ~closed
    /\ nEvents < MaxEvents
    /\ \E p \in WatchPaths, event \in {"add", "change", "unlink"} :
         /\ (event = "add") = (p \notin DOMAIN fs)
         /\ fs' = Edited(fs, event, p, nEvents + 1)
         /\ IF WatcherIgnored(ignoreFilter, p)
            THEN UNCHANGED <<debounceTimer, timers, window>>
            ELSE OnAll(event, p)
    /\ nEvents' = nEvents + 1
    /\ UNCHANGED <<pageVars, listVars, args, folderVars, explorerVars>>
    /\ UNCHANGED <<gitignore, platform, pc, ignoreFilter, linkMade, log,
                   isReady, passes, closed, lastPass, nPasses>>

\* the initial scan reports a file that exists
ScanEvent ==
    /\ Watching /\ ~closed /\ ~isReady
    /\ nEvents < MaxEvents
    /\ \E p \in WatchPaths :
         /\ p \in DOMAIN fs
         /\ ~WatcherIgnored(ignoreFilter, p)
         /\ OnAll("add", p)
    /\ nEvents' = nEvents + 1
    /\ UNCHANGED <<pageVars, listVars, args, folderVars, explorerVars>>
    /\ UNCHANGED <<buildVars, isReady, passes, closed, lastPass, nPasses>>

\* a debounce callback in flight: the event and path of its closure, the
\* await it is at, and the window of events it was armed in
Pass(id, event, filePath, at, win, after) ==
    [id |-> id, event |-> event, filePath |-> filePath, at |-> at, window |-> win,
     after |-> after]

\* 500 ms have passed since the timer was armed: the callback starts
TimerFires ==
    /\ Watching
    /\ debounceTimer.armed
    /\ Len(passes) < MaxInFlight
    /\ passes' = Append(passes, Pass(nPasses + 1, debounceTimer.event,
                                     debounceTimer.filePath, "file", window,
                                     lastPass.failures))
    /\ nPasses' = nPasses + 1
    /\ debounceTimer' = NoTimer
    /\ timers' = timers - 1
    /\ window' = {}
    /\ UNCHANGED <<pageVars, listVars, args, folderVars, explorerVars>>
    /\ UNCHANGED <<buildVars, isReady, closed, lastPass, nEvents>>

\* passes without its i-th element
Without(seq, i) == SubSeq(seq, 1, i - 1) \o SubSeq(seq, i + 1, Len(seq))

\* the step a callback just took, for the record
Step(ps, at, done, failed) ==
    [seq |-> lastPass.seq + 1, id |-> ps.id, event |-> ps.event, filePath |-> ps.filePath,
     window |-> ps.window, at |-> at, done |-> done, failed |-> failed,
     failures |-> lastPass.failures + (IF failed THEN 1 ELSE 0), after |-> ps.after]

\* fs.unlink(buildPath) inside try {} catch {}: a failure leaves no trace
unlinkQuietly(st, buildPath, fails) ==
    IF ~fails /\ buildPath \in DOMAIN st.fs /\ st.fs[buildPath].kind # "dir"
    THEN St(Remove(st.fs, buildPath), st.log)
    ELSE st

\* the first await of the callback: copyFile for add and change, unlink for
\* unlink; then copyCustomizations follows iff the path starts with src/
PassFileStep(i) ==
    LET ps        == passes[i]
        buildPath == Join(<<BUILD_DIR>>, ps.filePath)
        more      == StartsWithSrc(ps.filePath)
    IN  /\ ps.at = "file"
        /\ \E fails \in BOOLEAN :
             \E st \in { IF ps.event = "unlink"
                          THEN unlinkQuietly(St(fs, log), buildPath, fails)
                          ELSE copyFile(St(fs, log), ps.filePath, buildPath,
                                        IF fails THEN {ps.filePath} ELSE {}) } :
             LET failed == IF ps.event = "unlink"
                           THEN fails \/ ~IsFileAt(fs, buildPath)
                           ELSE fails \/ ~IsFileAt(fs, ps.filePath)
             IN  /\ fs' = st.fs
                 /\ log' = st.log
                 /\ lastPass' = Step(ps, "file", ~more, failed)
        /\ passes' = IF more THEN [passes EXCEPT ![i].at = "overlay"] ELSE Without(passes, i)

\* the second await: copyCustomizations; what it throws is caught and logged
PassOverlayStep(i) ==
    LET ps == passes[i]
    IN  /\ ps.at = "overlay"
        /\ \E locked \in OverlayLockChoices, readdirFails \in BOOLEAN :
             \E r \in { copyCustomizations(St(fs, log), locked, readdirFails) } :
                 /\ fs' = r.st.fs
                 /\ log' = IF r.threw THEN r.st.log \cup { <<"sync", ps.filePath>> }
                                       ELSE r.st.log
                 /\ lastPass' = Step(ps, "overlay", TRUE,
                                     r.threw \/ \E q \in locked : IsFileAt(fs, q))
        /\ passes' = Without(passes, i)

\* one debounce callback in flight completes its copyFile or unlink
PassFile ==
    /\ Watching
    /\ \E i \in DOMAIN passes : PassFileStep(i)
    /\ UNCHANGED <<pageVars, listVars, args, folderVars, explorerVars>>
    /\ UNCHANGED <<gitignore, platform, pc, ignoreFilter, linkMade,
                   isReady, debounceTimer, timers, closed, window, nPasses, nEvents>>

\* one debounce callback in flight completes its copyCustomizations
PassOverlay ==
    /\ Watching
    /\ \E i \in DOMAIN passes : PassOverlayStep(i)
    /\ UNCHANGED <<pageVars, listVars, args, folderVars, explorerVars>>
    /\ UNCHANGED <<gitignore, platform, pc, ignoreFilter, linkMade,
                   isReady, debounceTimer, timers, closed, window, nPasses, nEvents>>

\* process.on('SIGINT'): watcher.close(); process.exit(0)
Sigint ==
    /\ Watching
    /\ closed' = TRUE
    /\ pc' = "exited"
    /\ UNCHANGED <<pageVars, listVars, args, folderVars, explorerVars>>
    /\ UNCHANGED <<fs, gitignore, platform, ignoreFilter, linkMade, log,
                   isReady, debounceTimer, timers, passes, window, lastPass, nPasses, nEvents>>

WatchNext ==
    \/ SetupWatcher
    \/ WatcherReady
    \/ FsEvent
    \/ ScanEvent
    \/ TimerFires
    \/ PassFile
    \/ PassOverlay
    \/ Sigint

SpecWatch == WatchInit /\ [][WatchNext]_vars

\* main in watch mode, after setupWatcher: await runQuartzBuild(); npm
\* install has closed with code 0 and the renderer is spawned
StartRenderer ==
    /\ pc = "watching"
    /\ pc' = "rendering"
    /\ UNCHANGED <<pageVars, listVars, args, folderVars, explorerVars>>
    /\ UNCHANGED <<fs, gitignore, platform, ignoreFilter, linkMade, log, watchVars>>

\* the watch session together with the renderer that main starts
ServeNext ==
    \/ SetupWatcher
    \/ WatcherReady
    \/ FsEvent
    \/ ScanEvent
    \/ TimerFires
    \/ PassFile
    \/ PassOverlay
    \/ Sigint
    \/ StartRenderer

SpecServe == WatchInit /\ [][ServeNext]_vars

(***************************************************************************)
(* The CustomFolderPage emitter (part_000). A slug is the sequence of its  *)
(* segments; the content collection is the set of the slugs of its nodes,  *)
(* in the order of SlugOrder where the code iterates over it.              *)
(***************************************************************************)
\* most change events in one rebuild
MaxBatch == 2

\* the slugs of the content files, in the order the collection lists them
SlugOrder ==
    << <<"docs", "guide">>,
       <<"docs", "guide", "index">>,
       <<"docs", "guide", "intro">>,
       <<"docs", "setup">>,
       <<"blog", "post">>,
       <<"tags", "x">> >>

Range(seq) == { seq[i] : i \in DOMAIN seq }

Slugs == Range(SlugOrder)

\* the collections a session may start with
InitialContents == SUBSET Slugs

\* content.map((c) => c[1].data)
allFiles(files) == SelectSeq(SlugOrder, LAMBDA s : s \in files)

\* what path.dirname returns for the current directory
Dot == <<".">>

\* the root directory: the first element of an absolute path
Root == <<"/">>

\* path.dirname of a slug: the root is its own parent
pathDirname(slug) ==
    IF slug = Root THEN Root
    ELSE IF Len(slug) <= 1 THEN Dot
    ELSE SubSeq(slug, 1, Len(slug) - 1)

\* the while loop of _getFolders
RECURSIVE parentFolderNames(_)
parentFolderNames(folderName) ==
    IF folderName = Dot
    THEN <<folderName>>
    ELSE <<folderName>> \o parentFolderNames(pathDirname(folderName))

_getFolders(slug) == parentFolderNames(pathDirname(slug))

\* the filter without its test for the folder tags
KeptFoldersWithTags(slug) ==
    SelectSeq(_getFolders(slug), LAMBDA folderName : folderName # Dot)

\* .filter((folderName) => folderName !== "." && folderName !== "tags")
KeptFolders(slug) ==
    SelectSeq(_getFolders(slug), LAMBDA folderName :
        folderName # Dot /\ folderName # <<"tags">>)

\* new Set(...) of a sequence: the first occurrence of each element, in order
RECURSIVE SetOf(_)
SetOf(seq) ==
    IF seq = <<>>
    THEN <<>>
    ELSE With(SetOf(SubSeq(seq, 1, Len(seq) - 1)), LAMBDA front :
            IF seq[Len(seq)] \in Range(front)
            THEN front
            ELSE Append(front, seq[Len(seq)]))

\* the flattening of flatMap: the concatenation of a sequence of sequences
RECURSIVE Flat(_)
Flat(seqs) ==
    IF seqs = <<>> THEN <<>> ELSE Head(seqs) \o Flat(Tail(seqs))

\* seq.flatMap(f)
FlatMap(seq, f(_)) == Flat([ i \in DOMAIN seq |-> f(seq[i]) ])

\* joinSegments(folder, "index")
IndexOf(folder) == Append(folder, "index")

\* stripSlashes(simplifySlug(slug)): a trailing index segment is dropped
simplifySlug(slug) ==
    IF slug # <<>> /\ slug[Len(slug)] = "index"
    THEN SubSeq(slug, 1, Len(slug) - 1)
    ELSE slug

\* the page data of a content node
FileData(slug) == [slug |-> slug, synthetic |-> FALSE, title |-> <<"title of", slug>>]

\* defaultProcessedContent({slug, frontmatter: {title: `Folder: ${folder}`}})
defaultProcessedContent(folder) ==
    [slug |-> IndexOf(folder), synthetic |-> TRUE, title |-> <<"Folder: ", folder>>]

\* the content nodes that computeFolderInfo assigns to the folder, in order
NodesFor(folder, files) ==
    SelectSeq(allFiles(files), LAMBDA s : simplifySlug(s) = folder)

\* computeFolderInfo: the defaults, overwritten by the last node of the folder
computeFolderInfo(folders, files) ==
    [ i \in DOMAIN folders |->
        [ folder |-> folders[i],
          data |-> With(NodesFor(folders[i], files), LAMBDA nodes :
                     IF nodes = <<>>
                     THEN defaultProcessedContent(folders[i])
                     ELSE FileData(nodes[Len(nodes)])) ] ]

\* trieFromAllFiles(allFiles): the trie, as the collection it was built from
trieFromAllFiles(files) == [built |-> TRUE, files |-> files]

\* the trie has a node at the path: the root, a file or a folder above a file
HasNode(t, path) ==
    \/ path = <<>>
    \/ \E s \in t.files : IsPrefix(path, simplifySlug(s))

\* folder.children of the node at the path: the names one level below it
ChildNames(t, path) ==
    { s[Len(path) + 1] : s \in { x \in t.files :
        /\ IsPrefix(path, x)
        /\ Len(x) > Len(path)
        /\ ~ (Len(x) = Len(path) + 1 /\ x[Len(x)] = "index") } }

\* the row of one child: its data, or the synthetic file of a bare subfolder
ChildRow(t, path, name) ==
    IF Append(path, name) \in t.files
    THEN FileData(Append(path, name))
    ELSE IF IndexOf(Append(path, name)) \in t.files
         THEN FileData(IndexOf(Append(path, name)))
         ELSE [slug |-> IndexOf(Append(path, name)), synthetic |-> TRUE,
               title |-> <<name>>]

\* what FolderContent lists: null without a node, else the rows of the children
NoListing == [found |-> FALSE, rows |-> {}]

FolderContent(t, fileData) ==
    With(simplifySlug(fileData.slug), LAMBDA path :
        IF ~ HasNode(t, path)
        THEN NoListing
        ELSE [found |-> TRUE,
              rows |-> { ChildRow(t, path, name) : name \in ChildNames(t, path) }])

\* props.ctx.trie ??= trieFromAllFiles(allFiles)
TrieOr(t, files) == IF t.built THEN t ELSE trieFromAllFiles(files)

\* processFolderInfo: one page per entry of folderInfo, written as .html
processFolderInfo(t, folderInfo, files) ==
    [ trie |-> IF folderInfo = <<>> THEN t ELSE TrieOr(t, files),
      pages |-> [ i \in DOMAIN folderInfo |->
                    [ slug |-> IndexOf(folderInfo[i].folder),
                      ext |-> ".html",
                      fileData |-> folderInfo[i].data,
                      listing |-> FolderContent(TrieOr(t, files), folderInfo[i].data) ] ] ]

\* emit: the folders of every slug of the collection
emit(t, files) ==
    With(SetOf(FlatMap(allFiles(files), KeptFolders)), LAMBDA folders :
        processFolderInfo(t, computeFolderInfo(folders, files), files))

\* the loop of partialEmit: events without a file are skipped
affectedFolders(changeEvents) ==
    SetOf(FlatMap(SelectSeq(SlugOrder, LAMBDA s :
                      \E e \in changeEvents : e.slug = s /\ e.file),
                  KeptFolders))

\* partialEmit that renders every folder of the collection, as emit does
partialEmitAll(t, files, changeEvents) == emit(t, files)

\* partialEmit: the affected folders only, and nothing when there are none
partialEmit(t, files, changeEvents) ==
    With(affectedFolders(changeEvents), LAMBDA affected :
        IF Len(affected) > 0
        THEN processFolderInfo(t, computeFolderInfo(affected, files), files)
        ELSE [trie |-> t, pages |-> <<>>])

\* the change events a rebuild can deliver for the collection: an added or
\* changed content file comes with its node (file), a removed one with or
\* without it (file is optional in a change event)
ChangeEvents(files) ==
    { [type |-> "add", slug |-> s, file |-> TRUE] : s \in Slugs \ files }
    \cup { [type |-> "change", slug |-> s, file |-> TRUE] : s \in files }
    \cup { [type |-> "delete", slug |-> s, file |-> b] : s \in files, b \in BOOLEAN }

\* one event per path, at least one, at most MaxBatch
Batches(files) ==
    { b \in SUBSET ChangeEvents(files) :
        /\ b # {}
        /\ Cardinality(b) <= MaxBatch
        /\ \A e1, e2 \in b : e1.slug = e2.slug => e1 = e2 }

\* the collection after the changes
Changed(files, changeEvents) ==
    (files \cup { e.slug : e \in { x \in changeEvents : x.type = "add" /\ x.file } })
        \ { e.slug : e \in { x \in changeEvents : x.type = "delete" } }

PagesInit ==
    /\ fs = Workspace0
    /\ gitignore = Gitignore(TRUE, <<>>)
    /\ platform = "posix"
    /\ pc = "building"
    /\ args = Args(FALSE, FALSE, FALSE)
    /\ ignoreFilter = NoFilter
    /\ linkMade = FALSE
    /\ log = {}
    /\ WatchIdle
    /\ FoldersIdle
    /\ ExplorerIdle
    /\ content \in InitialContents
    /\ trie = NoTrie
    /\ written = <<>>
    /\ lastEmit = NoEmit
    /\ ListIdle

\* the first build: emit over the whole collection
Emit ==
    /\ lastEmit.op = "none"
    /\ \E r \in { emit(trie, content) } :
         /\ written' = r.pages
         /\ trie' = r.trie
    /\ lastEmit' = [op |-> "emit", changeEvents |-> {}, trie |-> trie]
    /\ UNCHANGED <<content, buildVars, watchVars, listVars, folderVars, explorerVars>>

\* the rebuild after the first build: the collection changes and partialEmit
\* gets the events
PartialEmit ==
    /\ lastEmit.op = "emit"
    /\ \E changeEvents \in Batches(content) :
         \E files \in { Changed(content, changeEvents) } :
           \E r \in { partialEmit(trie, files, changeEvents) } :
             /\ content' = files
             /\ written' = r.pages
             /\ trie' = r.trie
             /\ lastEmit' = [op |-> "partialEmit", changeEvents |-> changeEvents,
                             trie |-> trie]
    /\ UNCHANGED <<buildVars, watchVars, listVars, folderVars, explorerVars>>

PagesNext ==
    \/ Emit
    \/ PartialEmit

SpecPages == PagesInit /\ [][PagesNext]_vars

(***************************************************************************)
(* _getFolders (part_000 313-322), one iteration of its loop at a time     *)
(***************************************************************************)
\* most iterations of the while loop that are followed
MaxChain == 6

\* the segments of the slugs _getFolders is called with
FolderSegments == {"a", "b", "index"}

\* relative slugs of up to three segments, the empty slug included, and the
\* same slugs with a leading slash
FolderSlugs ==
    LET relative == UNION { [1 .. n -> FolderSegments] : n \in 0 .. 3 }
    IN  relative \cup { Root \o r : r \in relative }

FoldersInit ==
    /\ fs = Workspace0
    /\ gitignore = Gitignore(TRUE, <<>>)
    /\ platform = "posix"
    /\ pc = "building"
    /\ args = Args(FALSE, FALSE, FALSE)
    /\ ignoreFilter = NoFilter
    /\ linkMade = FALSE
    /\ log = {}
    /\ WatchIdle
    /\ PagesIdle
    /\ ListIdle
    /\ slugArg \in FolderSlugs
    /\ gfFolderName = <<>>
    /\ parentNames = <<>>
    /\ foldersPc = "called"
    /\ ExplorerIdle

\* var folderName = path.dirname(slug ?? ""); const parentFolderNames = [folderName]
GetFoldersEnter ==
    /\ foldersPc = "called"
    /\ gfFolderName' = pathDirname(slugArg)
    /\ parentNames' = << pathDirname(slugArg) >>
    /\ foldersPc' = "loop"
    /\ UNCHANGED <<buildVars, watchVars, pageVars, listVars, explorerVars, slugArg>>

\* while (gfFolderName !== "."): one iteration
GetFoldersLoop ==
    /\ foldersPc = "loop"
    /\ gfFolderName # Dot
    /\ Len(parentNames) < MaxChain
    /\ gfFolderName' = pathDirname(gfFolderName)
    /\ parentNames' = Append(parentNames, pathDirname(gfFolderName))
    /\ UNCHANGED <<buildVars, watchVars, pageVars, listVars, explorerVars, slugArg, foldersPc>>

\* the loop is left: return parentFolderNames
GetFoldersReturn ==
    /\ foldersPc = "loop"
    /\ gfFolderName = Dot
    /\ foldersPc' = "returned"
    /\ UNCHANGED <<buildVars, watchVars, pageVars, listVars, explorerVars, slugArg, gfFolderName, parentNames>>

FoldersNext ==
    \/ GetFoldersEnter
    \/ GetFoldersLoop
    \/ GetFoldersReturn

SpecFolders == FoldersInit /\ [][FoldersNext]_vars

(***************************************************************************)
(* The page list of a folder page (part_000: FolderContent, CustomPageList *)
(* and bySortOrderAndAlphabetical) and the sort of the navigation tree     *)
(* (custom-explorer.inline.ts: createCustomSortFn). A title is the         *)
(* sequence of its characters.                                             *)
(***************************************************************************)
\* most children of the folder that is listed
MaxSiblings == 3

\* frontmatter.sortorder: absent, a number, or a string that is no number
Undefined == [type |-> "undefined", num |-> 0]
Num(n) == [type |-> "number", num |-> n]
Str == [type |-> "string", num |-> 0]

\* dates: absent, or created, modified and published
NoDates == [has |-> FALSE, created |-> 0, modified |-> 0, published |-> 0]
Dates(c, m, p) == [has |-> TRUE, created |-> c, modified |-> m, published |-> p]

\* new Date(): the time of the build, later than every date of the content
Now == 9

\* options.showSubfolders of defaultOptions
showSubfolders == TRUE

\* a node of the trie: a file, a folder with an index file, a bare folder
FileNode(seg, title, sortorder, dates) ==
    [seg |-> seg, isFolder |-> FALSE, hasData |-> TRUE, title |-> title,
     sortorder |-> sortorder, dates |-> dates, children |-> <<>>]

IndexedFolder(seg, title, sortorder, dates) ==
    [seg |-> seg, isFolder |-> TRUE, hasData |-> TRUE, title |-> title,
     sortorder |-> sortorder, dates |-> dates, children |-> <<>>]

BareFolder(seg, title, nodes) ==
    [seg |-> seg, isFolder |-> TRUE, hasData |-> FALSE, title |-> title,
     sortorder |-> Undefined, dates |-> NoDates, children |-> nodes]

\* node.slug: a folder's slug ends in index
NodeSlug(node) ==
    IF node.isFolder THEN <<"a", node.seg, "index">> ELSE <<"a", node.seg>>

\* isFolderPath(slug)
isFolderPath(slug) == slug # <<>> /\ slug[Len(slug)] = "index"

\* the characters of the titles, in the order localeCompare gives them
Alphabet == <<"0", "1", "2", "a", "b", "c", "d", "e", "x", "y", "z">>

Digits == {"0", "1", "2"}

\* String.prototype.toLowerCase, by character
toLowerCase(title) ==
    [ i \in DOMAIN title |->
        IF title[i] = "A" THEN "a" ELSE IF title[i] = "B" THEN "b" ELSE title[i] ]

CharRank(c) == CHOOSE i \in DOMAIN Alphabet : Alphabet[i] = toLowerCase(<<c>>)[1]

\* the rank of an upper-case character in code unit order, before the others
CodeUnit(c) == IF c = "A" THEN 0 - 2 ELSE IF c = "B" THEN 0 - 1 ELSE CharRank(c)

Sign(n) == IF n < 0 THEN 0 - 1 ELSE IF n > 0 THEN 1 ELSE 0

\* s1.localeCompare(s2) of two lower-case strings: character by character
RECURSIVE localeCompare(_, _)
localeCompare(s1, s2) ==
    IF s1 = <<>> /\ s2 = <<>> THEN 0
    ELSE IF s1 = <<>> THEN 0 - 1
    ELSE IF s2 = <<>> THEN 1
    ELSE IF CharRank(s1[1]) # CharRank(s2[1])
         THEN Sign(CharRank(s1[1]) - CharRank(s2[1]))
         ELSE localeCompare(Tail(s1), Tail(s2))

\* the length of the run of digits a string starts with
RECURSIVE DigitRun(_)
DigitRun(s) ==
    IF s # <<>> /\ s[1] \in Digits THEN 1 + DigitRun(Tail(s)) ELSE 0

\* the value of a string of digits
RECURSIVE DigitValue(_)
DigitValue(s) ==
    IF s = <<>> THEN 0
    ELSE 10 * DigitValue(SubSeq(s, 1, Len(s) - 1)) + (CharRank(s[Len(s)]) - 1)

\* s1.localeCompare(s2, undefined, {numeric: true, sensitivity: "base"}):
\* case is ignored and runs of digits compare by their value
RECURSIVE localeCompareNumeric(_, _)
localeCompareNumeric(s1, s2) ==
    IF s1 = <<>> /\ s2 = <<>> THEN 0
    ELSE IF s1 = <<>> THEN 0 - 1
    ELSE IF s2 = <<>> THEN 1
    ELSE IF DigitRun(s1) > 0 /\ DigitRun(s2) > 0
         THEN IF DigitValue(SubSeq(s1, 1, DigitRun(s1)))
                   # DigitValue(SubSeq(s2, 1, DigitRun(s2)))
              THEN Sign(DigitValue(SubSeq(s1, 1, DigitRun(s1)))
                        - DigitValue(SubSeq(s2, 1, DigitRun(s2))))
              ELSE localeCompareNumeric(SubSeq(s1, DigitRun(s1) + 1, Len(s1)),
                                        SubSeq(s2, DigitRun(s2) + 1, Len(s2)))
         ELSE IF CharRank(s1[1]) # CharRank(s2[1])
              THEN Sign(CharRank(s1[1]) - CharRank(s2[1]))
              ELSE localeCompareNumeric(Tail(s1), Tail(s2))

\* getDate(cfg, data) with defaultDateType "modified"
getDate(data) == data.dates.modified

\* the comparison of the titles without toLowerCase
titleCompareCaseSensitive(f1, f2) ==
    IF f1.title = f2.title THEN 0
    ELSE IF \E k \in 1 .. Len(f1.title) :
              /\ k <= Len(f2.title)
              /\ SubSeq(f1.title, 1, k - 1) = SubSeq(f2.title, 1, k - 1)
              /\ CodeUnit(f1.title[k]) # CodeUnit(f2.title[k])
         THEN LET k == CHOOSE k \in 1 .. Len(f1.title) :
                         /\ k <= Len(f2.title)
                         /\ SubSeq(f1.title, 1, k - 1) = SubSeq(f2.title, 1, k - 1)
                         /\ CodeUnit(f1.title[k]) # CodeUnit(f2.title[k])
              IN Sign(CodeUnit(f1.title[k]) - CodeUnit(f2.title[k]))
         ELSE Sign(Len(f1.title) - Len(f2.title))

\* f1Title.localeCompare(f2Title) of the lower-case titles
titleCompare(f1, f2) == localeCompare(toLowerCase(f1.title), toLowerCase(f2.title))

\* the comparator with the sortorder values compared in descending order
bySortOrderDescending(f1, f2) ==
    IF isFolderPath(f1.slug) /\ ~ isFolderPath(f2.slug) THEN 0 - 1
    ELSE IF ~ isFolderPath(f1.slug) /\ isFolderPath(f2.slug) THEN 1
    ELSE IF f1.sortorder.type = "number" /\ f2.sortorder.type = "number"
         THEN f2.sortorder.num - f1.sortorder.num
    ELSE IF f1.sortorder.type = "number" THEN 0 - 1
    ELSE IF f2.sortorder.type = "number" THEN 1
    ELSE IF f1.dates.has /\ f2.dates.has THEN getDate(f2) - getDate(f1)
    ELSE IF f1.dates.has THEN 0 - 1
    ELSE IF f2.dates.has THEN 1
    ELSE titleCompare(f1, f2)

\* bySortOrderAndAlphabetical(cfg)(f1, f2)
bySortOrderAndAlphabetical(f1, f2) ==
    IF isFolderPath(f1.slug) /\ ~ isFolderPath(f2.slug) THEN 0 - 1
    ELSE IF ~ isFolderPath(f1.slug) /\ isFolderPath(f2.slug) THEN 1
    ELSE IF f1.sortorder.type = "number" /\ f2.sortorder.type = "number"
         THEN f1.sortorder.num - f2.sortorder.num
    ELSE IF f1.sortorder.type = "number" THEN 0 - 1
    ELSE IF f2.sortorder.type = "number" THEN 1
    ELSE IF f1.dates.has /\ f2.dates.has THEN getDate(f2) - getDate(f1)
    ELSE IF f1.dates.has THEN 0 - 1
    ELSE IF f2.dates.has THEN 1
    ELSE titleCompare(f1, f2)

\* the loop of getMostRecentDates over node.children
RECURSIVE mostRecentDates(_, _)
mostRecentDates(nodes, maybeDates) ==
    IF nodes = <<>>
    THEN maybeDates
    ELSE With(Head(nodes), LAMBDA child :
           mostRecentDates(Tail(nodes),
             IF ~ (child.hasData /\ child.dates.has)
             THEN maybeDates
             ELSE IF ~ maybeDates.has
                  THEN child.dates
                  ELSE Dates(
                    IF child.dates.created > maybeDates.created
                    THEN child.dates.created ELSE maybeDates.created,
                    IF child.dates.modified > maybeDates.modified
                    THEN child.dates.modified ELSE maybeDates.modified,
                    IF child.dates.published > maybeDates.published
                    THEN child.dates.published ELSE maybeDates.published)))

\* getMostRecentDates(): the dates found, or the time of the build
getMostRecentDates(node) ==
    With(mostRecentDates(node.children, NoDates), LAMBDA maybeDates :
        IF maybeDates.has THEN maybeDates ELSE Dates(Now, Now, Now))

\* the page of one child: its data, or the synthetic file of a bare folder
PageOf(node) ==
    IF node.hasData
    THEN [slug |-> NodeSlug(node), title |-> node.title,
          sortorder |-> node.sortorder, dates |-> node.dates, listed |-> TRUE]
    ELSE IF node.isFolder /\ showSubfolders
         THEN [slug |-> NodeSlug(node), title |-> node.title,
               sortorder |-> Undefined, dates |-> getMostRecentDates(node),
               listed |-> TRUE]
         ELSE [slug |-> NodeSlug(node), title |-> node.title,
               sortorder |-> Undefined, dates |-> NoDates, listed |-> FALSE]

\* allPagesInFolder: folder.children.map(...).filter((page) => page !== undefined)
allPagesInFolder(nodes) ==
    SelectSeq([ i \in DOMAIN nodes |-> PageOf(nodes[i]) ], LAMBDA page : page.listed)

\* getSortOrder(node) of createCustomSortFn: frontmatter?.sortorder ?? null
getSortOrder(node) == IF node.isFolder THEN Undefined ELSE node.sortorder

\* createCustomSortFn()(a, b): nan when the difference is no number
createCustomSortFn(a, b) ==
    IF a.isFolder = b.isFolder
    THEN IF getSortOrder(a).type # "undefined" /\ getSortOrder(b).type # "undefined"
         THEN IF getSortOrder(a).type = "number" /\ getSortOrder(b).type = "number"
              THEN [nan |-> FALSE, v |-> getSortOrder(a).num - getSortOrder(b).num]
              ELSE [nan |-> TRUE, v |-> 0]
         ELSE IF getSortOrder(a).type # "undefined" THEN [nan |-> FALSE, v |-> 0 - 1]
         ELSE IF getSortOrder(b).type # "undefined" THEN [nan |-> FALSE, v |-> 1]
         ELSE [nan |-> FALSE, v |-> localeCompareNumeric(a.title, b.title)]
    ELSE IF ~ a.isFolder /\ b.isFolder
         THEN [nan |-> FALSE, v |-> 1]
         ELSE [nan |-> FALSE, v |-> 0 - 1]

\* what Array.prototype.sort makes of the comparator's result: NaN counts as 0
explorerCompare(a, b) == createCustomSortFn(a, b).v

\* the place of element i in the stable order the comparator defines
Position(seq, cmp(_, _), i) ==
    1 + Cardinality({ j \in DOMAIN seq \ {i} :
          \/ cmp(seq[j], seq[i]) < 0
          \/ (cmp(seq[j], seq[i]) = 0 /\ ~ (cmp(seq[i], seq[j]) < 0) /\ j < i) })

\* seq.sort(cmp): the stable order of a consistent comparator; any order of
\* the elements when the comparator is not consistent on them
SortOutcomes(seq, cmp(_, _)) ==
    IF { Position(seq, cmp, i) : i \in DOMAIN seq } = DOMAIN seq
    THEN { [ k \in DOMAIN seq |->
               seq[CHOOSE i \in DOMAIN seq : Position(seq, cmp, i) = k] ] }
    ELSE { [ k \in DOMAIN seq |-> seq[p[k]] ] :
             p \in { q \in [DOMAIN seq -> DOMAIN seq] :
                       \A k1, k2 \in DOMAIN seq : q[k1] = q[k2] => k1 = k2 } }

\* the nodes a listed folder may hold
SiblingNodes ==
    { FileNode("f1", <<"a">>, Undefined, NoDates),
      FileNode("f2", <<"B">>, Undefined, NoDates),
      FileNode("f3", <<"a", "2">>, Undefined, NoDates),
      FileNode("f4", <<"a", "1", "0">>, Undefined, NoDates),
      FileNode("x", <<"x">>, Num(2), NoDates),
      FileNode("y", <<"y">>, Num(1), NoDates),
      FileNode("z", <<"z">>, Undefined, Dates(1, 1, 1)),
      FileNode("f5", <<"b">>, Undefined, Dates(1, 1, 1)),
      FileNode("f6", <<"c">>, Undefined, Dates(2, 2, 2)),
      FileNode("f7", <<"d">>, Str, NoDates),
      IndexedFolder("d1", <<"e">>, Num(1), NoDates),
      IndexedFolder("d2", <<"z">>, Undefined, NoDates),
      BareFolder("d3", <<"d", "0">>,
          << FileNode("g1", <<"a">>, Undefined, Dates(1, 2, 1)),
             FileNode("g2", <<"b">>, Undefined, Dates(2, 1, 1)) >>),
      BareFolder("d4", <<"d", "1">>,
          << BareFolder("d5", <<"e", "0">>,
                 << FileNode("g3", <<"a">>, Undefined, Dates(1, 1, 1)) >>) >>),
      BareFolder("d6", <<"d", "2">>,
          << FileNode("g4", <<"a">>, Undefined, NoDates) >>) }

\* folder.children: up to MaxSiblings different nodes, in any order
Siblings ==
    UNION { { s \in [1 .. n -> SiblingNodes] :
                \A i, j \in 1 .. n : s[i] = s[j] => i = j } : n \in 1 .. MaxSiblings }

ListInit ==
    /\ fs = Workspace0
    /\ gitignore = Gitignore(TRUE, <<>>)
    /\ platform = "posix"
    /\ pc = "building"
    /\ args = Args(FALSE, FALSE, FALSE)
    /\ ignoreFilter = NoFilter
    /\ linkMade = FALSE
    /\ log = {}
    /\ WatchIdle
    /\ FoldersIdle
    /\ ExplorerIdle
    /\ PagesIdle
    /\ children \in Siblings
    /\ sorted = NotSorted
    /\ explorerSorted = NotSorted

\* FolderContent collects the pages of the children, CustomPageList sorts them
RenderList ==
    /\ ~ sorted.done
    /\ \E list \in SortOutcomes(allPagesInFolder(children), bySortOrderAndAlphabetical) :
         sorted' = [done |-> TRUE, list |-> list]
    /\ UNCHANGED <<children, explorerSorted, buildVars, watchVars, pageVars, folderVars, explorerVars>>

\* setupExplorer: trie.sort(opts.sortFn) over the same children
ExplorerSort ==
    /\ ~ explorerSorted.done
    /\ \E list \in SortOutcomes(children, explorerCompare) :
         explorerSorted' = [done |-> TRUE, list |-> list]
    /\ UNCHANGED <<children, sorted, buildVars, watchVars, pageVars, folderVars, explorerVars>>

ListNext ==
    \/ RenderList
    \/ ExplorerSort

SpecList == ListInit /\ [][ListNext]_vars

(***************************************************************************)
(* The explorer of the page: setupExplorer and toggleFolder                *)
(***************************************************************************)
\* navigations and clicks of one session
MaxClicks == 3

\* the content index a page load may fetch: before and after a folder of
\* the site was replaced by another
ExplorerDataChoices ==
    { << FileNode("f1", <<"a">>, Undefined, NoDates),
         FileNode("f2", <<"B">>, Undefined, NoDates),
         FileNode("x", <<"x">>, Num(2), NoDates),
         IndexedFolder("d1", <<"e">>, Num(1), NoDates),
         BareFolder("d3", <<"d", "0">>,
             << FileNode("g2", <<"b">>, Undefined, NoDates),
                FileNode("g1", <<"a">>, Undefined, NoDates) >>) >>,
      << FileNode("f1", <<"a">>, Undefined, NoDates),
         FileNode("f2", <<"B">>, Undefined, NoDates),
         IndexedFolder("d1", <<"e">>, Num(1), NoDates),
         IndexedFolder("d2", <<"z">>, Undefined, NoDates) >> }

\* the slug of the page navigated to: a top-level page, a page of folder d3
CurrentSlugs == { <<"a", "f1">>, <<"a", "d3", "g1">> }

\* dataFns.order: absent, or the configured array of operation names
OrderChoices ==
    { [given |-> FALSE, fns |-> <<>>],
      [given |-> TRUE, fns |-> <<"sort", "map", "filter">>],
      [given |-> TRUE, fns |-> <<"map", "filter">>],
      [given |-> TRUE, fns |-> <<"sort", "other">>] }

\* the dataset of div.explorer, as the page was built
ExplorerOptions ==
    [order : OrderChoices, filterFn : BOOLEAN, mapFn : BOOLEAN,
     useSavedState : BOOLEAN, folderDefaultState : {"collapsed", "open"}]

\* the order when the configured one is not read
optsOrderDefaultOnly(opts) == <<"filter", "map", "sort">>

\* order: dataFns.order || ["filter", "map", "sort"]
optsOrder(opts) ==
    IF opts.order.given THEN opts.order.fns ELSE <<"filter", "map", "sort">>

\* the configured filterFn: hide the nodes displayed as "za"
filterFn(node) == node.title # <<"z", "a">>

\* the configured mapFn: the display names that start with "a" get a "z" in front
mapFn(node) ==
    IF node.title # <<>> /\ node.title[1] = "a"
    THEN [node EXCEPT !.title = <<"z">> \o @]
    ELSE node

\* trie.filter(filterFn): the children that pass the filter, at every level
RECURSIVE trieFilter(_)
trieFilter(nodes) ==
    With(SelectSeq(nodes, filterFn), LAMBDA kept :
        [ i \in DOMAIN kept |->
            [kept[i] EXCEPT !.children = trieFilter(kept[i].children)] ])

\* trie.map(mapFn): mapFn applied to every node
RECURSIVE trieMap(_)
trieMap(nodes) ==
    [ i \in DOMAIN nodes |->
        [mapFn(nodes[i]) EXCEPT !.children = trieMap(nodes[i].children)] ]

\* trie.sort(sortFn): the children sorted with sortFn, at every level
RECURSIVE trieSort(_)
trieSort(nodes) ==
    UNION { With([ i \in DOMAIN list |-> trieSort(list[i].children) ], LAMBDA sub :
                { [ i \in DOMAIN list |-> [list[i] EXCEPT !.children = below[i]] ] :
                    below \in { c \in [DOMAIN list -> UNION Range(sub)] :
                                  \A i \in DOMAIN list : c[i] \in sub[i] } }) :
            list \in SortOutcomes(nodes, explorerCompare) }

\* trie.getFolderPaths(): the slug of every folder node, in traversal order
RECURSIVE getFolderPaths(_)
getFolderPaths(nodes) ==
    IF nodes = <<>> THEN <<>>
    ELSE (IF Head(nodes).isFolder
          THEN <<NodeSlug(Head(nodes))>> \o getFolderPaths(Head(nodes).children)
          ELSE <<>>)
         \o getFolderPaths(Tail(nodes))

\* one turn of the loop over opts.order: the switch on the operation name
applyFn(nodes, fn, opts) ==
    IF fn = "filter" THEN (IF opts.filterFn THEN { trieFilter(nodes) } ELSE { nodes })
    ELSE IF fn = "map" THEN (IF opts.mapFn THEN { trieMap(nodes) } ELSE { nodes })
    ELSE IF fn = "sort" THEN trieSort(nodes)
    ELSE { nodes }

\* for (const fn of opts.order): the tries the loop may leave
RECURSIVE applyInOrder(_, _, _)
applyInOrder(tries, order, opts) ==
    IF order = <<>> THEN tries
    ELSE applyInOrder(UNION { applyFn(t, Head(order), opts) : t \in tries },
                      Tail(order), opts)

\* JSON.stringify(currentExplorerState): one text per entry
jsonStringify(state) ==
    [ i \in DOMAIN state |->
        <<"path", state[i].path, "collapsed",
          IF state[i].collapsed THEN "true" ELSE "false">> ]

\* JSON.parse(storageTree)
jsonParse(text) ==
    [ i \in DOMAIN text |-> [path |-> text[i][2], collapsed |-> text[i][4] = "true"] ]

\* the saved state when it is never read
serializedExplorerStateEmpty(storageTree, opts) == <<>>

\* const serializedExplorerState = storageTree && opts.useSavedState ? ... : []
serializedExplorerState(storageTree, opts) ==
    IF storageTree.has /\ opts.useSavedState THEN jsonParse(storageTree.text) ELSE <<>>

\* oldIndex.get(path): the last entry of the path wins in new Map(entries)
oldIndexGet(serialized, path) ==
    With({ i \in DOMAIN serialized : serialized[i].path = path }, LAMBDA at :
        IF at = {} THEN "undefined"
        ELSE IF serialized[CHOOSE i \in at : \A j \in at : j <= i].collapsed
             THEN "true" ELSE "false")

\* currentExplorerState = folderPaths.map(...)
restoredState(folderPaths, serialized, opts) ==
    [ i \in DOMAIN folderPaths |->
        [path |-> folderPaths[i],
         collapsed |->
            IF oldIndexGet(serialized, folderPaths[i]) = "undefined"
            THEN opts.folderDefaultState = "collapsed"
            ELSE oldIndexGet(serialized, folderPaths[i]) = "true"] ]

\* a find that never finds the entry
findStateNever(state, path) == 0

\* currentExplorerState.find((item) => item.path === path): its index, or 0
findState(state, path) ==
    IF \E i \in DOMAIN state : state[i].path = path
    THEN CHOOSE i \in DOMAIN state :
            state[i].path = path /\ \A j \in DOMAIN state : state[j].path = path => i <= j
    ELSE 0

\* createFolderNode: whether the folder's list gets the class "open"
folderRenderedOpen(state, folderPath, currentSlug, opts) ==
    With(IF findState(state, folderPath) = 0
         THEN opts.folderDefaultState = "collapsed"
         ELSE state[findState(state, folderPath)].collapsed, LAMBDA isCollapsed :
        \/ ~ isCollapsed
        \/ /\ IsPrefix(simplifySlug(folderPath), currentSlug)
           /\ Len(currentSlug) > Len(simplifySlug(folderPath)))

\* what localStorage may hold when the site is opened: nothing, or the state
\* an earlier visit stored
StoredBefore ==
    { NoItem,
      Item(jsonStringify(<< [path |-> <<"a", "d1", "index">>, collapsed |-> FALSE],
                            [path |-> <<"a", "d9", "index">>, collapsed |-> FALSE] >>)) }

ExplorerInit ==
    /\ fs = Workspace0
    /\ gitignore = Gitignore(TRUE, <<>>)
    /\ platform = "posix"
    /\ pc = "exited"
    /\ args = Args(FALSE, FALSE, FALSE)
    /\ ignoreFilter = NoFilter
    /\ linkMade = FALSE
    /\ log = {}
    /\ WatchIdle
    /\ PagesIdle
    /\ ListIdle
    /\ FoldersIdle
    /\ explorerOpts \in ExplorerOptions
    /\ explorerData = <<>>
    /\ explorerTrie = NoExplorerTrie
    /\ currentExplorerState = <<>>
    /\ localStorage \in StoredBefore
    /\ folderOpen = <<>>
    /\ lastToggle = NoToggle
    /\ nClicks = 0

\* document "nav": setupExplorer(currentSlug) on the content index the page fetched
SetupExplorer ==
    /\ nClicks < MaxClicks
    /\ \E data \in ExplorerDataChoices, currentSlug \in CurrentSlugs :
         \E nodes \in applyInOrder({ data }, optsOrder(explorerOpts), explorerOpts) :
           \E state \in { restoredState(getFolderPaths(nodes),
                              serializedExplorerState(localStorage, explorerOpts),
                              explorerOpts) } :
             /\ explorerData' = data
             /\ explorerTrie' = [done |-> TRUE, at |-> nClicks + 1, nodes |-> nodes,
                                currentSlug |-> currentSlug]
             /\ currentExplorerState' = state
             /\ folderOpen' =
                  [ path \in Range(getFolderPaths(nodes)) |->
                      folderRenderedOpen(state, path, currentSlug, explorerOpts) ]
    /\ nClicks' = nClicks + 1
    /\ UNCHANGED <<explorerOpts, localStorage, lastToggle>>
    /\ UNCHANGED <<buildVars, watchVars, pageVars, listVars, folderVars>>

\* a click on a rendered folder: toggleFolder(evt)
ToggleFolder ==
    /\ nClicks < MaxClicks
    /\ \E folderpath \in DOMAIN folderOpen :
         \E isCollapsed \in { folderOpen[folderpath] } :
           \E state \in { IF findState(currentExplorerState, folderpath) # 0
                          THEN [currentExplorerState EXCEPT
                                  ![findState(currentExplorerState, folderpath)].collapsed =
                                      isCollapsed]
                          ELSE Append(currentExplorerState,
                                      [path |-> folderpath, collapsed |-> isCollapsed]) } :
             /\ folderOpen' = [folderOpen EXCEPT ![folderpath] = ~ @]
             /\ currentExplorerState' = state
             /\ localStorage' = Item(jsonStringify(state))
             /\ lastToggle' = [n |-> lastToggle.n + 1, at |-> nClicks + 1, path |-> folderpath,
                               collapsed |-> isCollapsed, state |-> state]
    /\ nClicks' = nClicks + 1
    /\ UNCHANGED <<explorerOpts, explorerData, explorerTrie>>
    /\ UNCHANGED <<buildVars, watchVars, pageVars, listVars, folderVars>>

ExplorerNext ==
    \/ SetupExplorer
    \/ ToggleFolder

SpecExplorer == ExplorerInit /\ [][ExplorerNext]_vars



(***************************************************************************)
(* Claims about the ignore filter and the mirror                           *)
(***************************************************************************)
\* the paths of the build root, relative to it
BuildPaths == { SubSeq(p, 2, Len(p)) : p \in { q \in DOMAIN fs : Len(q) > 1 /\ q[1] = BUILD_DIR } }

\* the filter excludes workspace path p, tested as the kind of entry it is
Excluded(filter, p) ==
    /\ p \in DOMAIN fs
    /\ Ignores(filter, p, fs[p].kind = "dir")

\* C1: after mirrorWorkspace no workspace path that the filter excludes has
\* an entry under build/, at any depth (.git and a directory matched by a
\* rule such as `secrets/` included).
C1_ExclusionInvariant ==
    pc = "mirrored" =>
        \A p \in DOMAIN fs : Excluded(ignoreFilter, p) => p \notin BuildPaths

\* C1 restricted to the rule `secrets/`: after the mirror the build root
\* has no secrets directory.
C1_NoSecretsDirectory ==
    (pc = "mirrored" /\ Excluded(ignoreFilter, <<"secrets">>)) => <<"secrets">> \notin BuildPaths

\* C2: whatever .gitignore holds, the compiled filter excludes the static
\* paths build, src/quartz, .git and build.js.
StaticPaths == { <<"build">>, <<"src", "quartz">>, <<".git">>, <<"build.js">> }

C2_StaticFloor ==
    pc # "start" => \A p \in StaticPaths : Ignores(ignoreFilter, p, FALSE)

(***************************************************************************)
(* Claims about the watch session                                          *)
(***************************************************************************)
\* the build root holds the workspace's current version of p, or nothing
\* when the workspace has no p
InSync(f, p) ==
    LET b == Join(<<BUILD_DIR>>, p)
    IN  IF p \in DOMAIN f THEN b \in DOMAIN f /\ f[b] = f[p] ELSE b \notin DOMAIN f

\* a debounce callback took a step in this transition
Stepped == lastPass'.seq # lastPass.seq

\* C3: the pass that runs at window expiry processes the union of the
\* paths of the window's events: after its copy / removal step every path
\* of the window is copied to the build root, or removed from it.
C3_BatchUnion ==
    [][(Stepped /\ lastPass'.at = "file" /\ ~lastPass'.failed)
          => \A p \in lastPass'.window : InSync(fs', p)]_vars

\* the build root, as a file system of its own
BuildRoot(f) == [p \in { q \in DOMAIN f : IsPrefix(<<BUILD_DIR>>, q) } |-> f[p]]

\* C4: while the watcher is not ready no event arms the debounce timer, no
\* pass starts and nothing is written to the build root; once ready, the
\* watcher stays ready.
C4_NothingBeforeReady ==
    [][/\ ~isReady' => /\ ~debounceTimer'.armed
                       /\ nPasses' = 0
                       /\ BuildRoot(fs') = BuildRoot(fs)
       /\ isReady => isReady']_vars

\* C4 witness: events were raised while the watcher was still initializing
C4_Witness ==
    /\ pc = "watching" /\ ~isReady /\ nEvents > 0
    /\ ~InSync(fs, <<"content", "a.md">>)

\* the path lies under the customizations subtree src/
UnderSrc(p) == Len(p) > 1 /\ p[1] = "src"

\* C5: a pass runs copyCustomizations, after its copy or removal, iff the
\* path of its event lies under src/.
C5_OverlayIffUnderSrc ==
    lastPass.done => ((lastPass.at = "overlay") <=> UnderSrc(lastPass.filePath))

\* the failure of the step just taken is in the log
FailureLogged(step, l) ==
    CASE step.at = "overlay"   -> \E e \in l : e[1] \in {"sync", "copy"}
      [] step.event = "unlink" -> <<"unlink", Join(<<BUILD_DIR>>, step.filePath)>> \in l
      [] OTHER                 -> <<"copy", step.filePath>> \in l

\* the watcher is still running and its handler still arms the timer
StillWatching == pc = "watching" /\ ~closed /\ isReady

C7_CleanShutdown ==
    pc = "exited" => (closed /\ ~debounceTimer.armed /\ passes = <<>>)

(***************************************************************************)
(* Claims about the folder page emitter                                    *)
(***************************************************************************)
\* the ancestor folders of a slug, other than the root and `tags`
Ancestors(slug) ==
    { SubSeq(slug, 1, k) : k \in 1 .. Len(slug) - 1 } \ { <<"tags">> }

\* the ancestor closure of a set of change events
Closure(changeEvents) == UNION { Ancestors(e.slug) : e \in changeEvents }

\* the full folder set F of a collection
FullFolderSet(files) == UNION { Ancestors(s) : s \in files }

\* the folders the last call wrote a page for
WrittenFolders == { simplifySlug(written[i].slug) : i \in DOMAIN written }

\* the events of the last batch that carry a content node
ContentEvents == { e \in lastEmit.changeEvents : e.file }

MatchesEmit(A) ==
    /\ WrittenFolders = A
    /\ Len(written) = Cardinality(A)
    /\ \A i \in DOMAIN written :
          written[i] \in Range(emit(lastEmit.trie, content).pages)

\* C9: when the ancestor closure A of the batch is a strict subset of the
\* full folder set F, partialEmit writes exactly the folders of A, each page
\* equal to the one emit writes for the folder from the same collection.
C9_ExactlyTheClosure ==
    (/\ lastEmit.op = "partialEmit"
     /\ Closure(lastEmit.changeEvents) \subseteq FullFolderSet(content)
     /\ Closure(lastEmit.changeEvents) # FullFolderSet(content))
    => MatchesEmit(Closure(lastEmit.changeEvents))

\* C10: the ancestor folders of the slug of every event of the batch, of
\* every kind and also of an event without a content node, are re-rendered.
C10_EveryEventRerendered ==
    lastEmit.op = "partialEmit" =>
        \A e \in lastEmit.changeEvents : Ancestors(e.slug) \subseteq WrittenFolders

\* C11: emit writes exactly one page, at <folder>/index with extension
\* .html, for every folder of the full folder set F of the collection (the
\* ancestors of all slugs, without the root and tags), and no other page.
C11_OnePagePerFolder ==
    lastEmit.op = "emit" =>
        /\ \A f \in FullFolderSet(content) :
              Cardinality({ i \in DOMAIN written :
                  written[i].slug = Append(f, "index") /\ written[i].ext = ".html" }) = 1
        /\ \A i \in DOMAIN written :
              \E f \in FullFolderSet(content) : written[i].slug = Append(f, "index")

\* the first build of the whole collection: docs, docs/guide and blog
C11_Witness ==
    /\ lastEmit.op = "emit"
    /\ content = Slugs
    /\ Len(written) = 3

\* C12: a content node is the page data of folder f exactly when its slug is
\* f/index; a folder without such a node gets the synthesized data titled
\* with the folder label and the folder name.
C12_DataIffIndex ==
    lastEmit.op # "none" =>
        \A i \in DOMAIN written :
            /\ written[i].fileData.synthetic
                 <=> (written[i].slug \notin content)
            /\ ~ written[i].fileData.synthetic
                 => written[i].fileData.slug = written[i].slug
            /\ written[i].fileData.synthetic
                 => written[i].fileData.title
                      = <<"Folder: ", simplifySlug(written[i].slug)>>

\* the rows of the direct children of a folder in a collection: each child
\* file, each child folder with its index, each bare child folder synthetic
DirectChildren(f, files) ==
    { IF Append(f, name) \in files
      THEN FileData(Append(f, name))
      ELSE IF Append(Append(f, name), "index") \in files
           THEN FileData(Append(Append(f, name), "index"))
           ELSE [slug |-> Append(Append(f, name), "index"), synthetic |-> TRUE,
                 title |-> <<name>>] :
      name \in { s[Len(f) + 1] : s \in { x \in files :
                    /\ Len(x) > Len(f)
                    /\ SubSeq(x, 1, Len(f)) = f
                    /\ ~ (Len(x) = Len(f) + 1 /\ x[Len(x)] = "index") } } }

\* C13: the listing of every page emit or partialEmit renders is the set of
\* the direct children of the folder in the current collection, also when
\* the trie on the build context was built from an older collection.
C13_ListingIsCurrent ==
    lastEmit.op # "none" =>
        \A i \in DOMAIN written :
            /\ written[i].listing.found
            /\ written[i].listing.rows
                 = DirectChildren(simplifySlug(written[i].slug), content)

(***************************************************************************)
(* Claims about the page list and the two comparators                      *)
(***************************************************************************)
\* the greatest created, modified and published of a set of dates
MaxDates(S) ==
    Dates(CHOOSE c \in { d.created : d \in S } : \A d \in S : d.created <= c,
          CHOOSE m \in { d.modified : d \in S } : \A d \in S : d.modified <= m,
          CHOOSE q \in { d.published : d \in S } : \A d \in S : d.published <= q)

\* the dates the children of a node contribute: those of a child with dated
\* content, and those a bare child folder synthesizes from its own children
RECURSIVE DatesBelow(_)
DatesBelow(node) ==
    { node.children[i].dates : i \in { k \in DOMAIN node.children :
          node.children[k].hasData /\ node.children[k].dates.has } }
    \cup { MaxDates(DatesBelow(node.children[i])) : i \in { k \in DOMAIN node.children :
          /\ ~ node.children[k].hasData
          /\ DatesBelow(node.children[k]) # {} } }

\* the row the sorted list holds for a child
RowOf(node) ==
    sorted.list[CHOOSE k \in DOMAIN sorted.list : sorted.list[k].slug = NodeSlug(node)]

\* C14: the dates synthesized for a folder without content are, field by
\* field, the most recent among its direct children, a bare child folder
\* contributing its own synthesized dates; without any they are the build time.
C14_SynthesizedDates ==
    sorted.done =>
        \A i \in DOMAIN children :
            ~ children[i].hasData =>
                RowOf(children[i]).dates
                  = IF DatesBelow(children[i]) = {}
                    THEN Dates(Now, Now, Now)
                    ELSE MaxDates(DatesBelow(children[i]))

\* s comes before t, or equals it, in case-insensitive lexicographic order
LexLE(s, t) ==
    \/ Len(s) <= Len(t) /\ toLowerCase(SubSeq(t, 1, Len(s))) = toLowerCase(s)
    \/ \E k \in 1 .. Len(s) :
          /\ k <= Len(t)
          /\ toLowerCase(SubSeq(s, 1, k - 1)) = toLowerCase(SubSeq(t, 1, k - 1))
          /\ CharRank(s[k]) < CharRank(t[k])

\* the name tie-break: -1, 0 or 1
ByName(p, q) ==
    IF toLowerCase(p.title) = toLowerCase(q.title) THEN 0
    ELSE IF LexLE(p.title, q.title) THEN 0 - 1 ELSE 1

\* the precedence chain with the names as tie-break of every tie
ChainWithNames(p, q) ==
    IF isFolderPath(p.slug) # isFolderPath(q.slug)
    THEN IF isFolderPath(p.slug) THEN 0 - 1 ELSE 1
    ELSE IF p.sortorder.type = "number" /\ q.sortorder.type = "number"
         THEN IF p.sortorder.num # q.sortorder.num
              THEN Sign(p.sortorder.num - q.sortorder.num)
              ELSE ByName(p, q)
    ELSE IF p.sortorder.type = "number" THEN 0 - 1
    ELSE IF q.sortorder.type = "number" THEN 1
    ELSE IF p.dates.has # q.dates.has
         THEN IF p.dates.has THEN 0 - 1 ELSE 1
    ELSE IF p.dates.has /\ p.dates.modified # q.dates.modified
         THEN Sign(q.dates.modified - p.dates.modified)
    ELSE ByName(p, q)

\* the chain in which equal sortorders and equal dates are ties
ChainWithTies(p, q) ==
    IF isFolderPath(p.slug) # isFolderPath(q.slug)
    THEN IF isFolderPath(p.slug) THEN 0 - 1 ELSE 1
    ELSE IF p.sortorder.type = "number" /\ q.sortorder.type = "number"
         THEN Sign(p.sortorder.num - q.sortorder.num)
    ELSE IF p.sortorder.type = "number" THEN 0 - 1
    ELSE IF q.sortorder.type = "number" THEN 1
    ELSE IF p.dates.has # q.dates.has
         THEN IF p.dates.has THEN 0 - 1 ELSE 1
    ELSE IF p.dates.has
         THEN Sign(q.dates.modified - p.dates.modified)
    ELSE ByName(p, q)

\* the place of a row's node among the children
InputIndex(page) ==
    CHOOSE i \in DOMAIN children : NodeSlug(children[i]) = page.slug

\* x (sortorder 2), y (sortorder 1) and z (no sortorder, dated)
ScenarioXYZ ==
    { FileNode("x", <<"x">>, Num(2), NoDates),
      FileNode("y", <<"y">>, Num(1), NoDates),
      FileNode("z", <<"z">>, Undefined, Dates(1, 1, 1)) }

ScenarioOrder ==
    Range(children) = ScenarioXYZ
    => [ k \in DOMAIN sorted.list |-> sorted.list[k].slug ]
         = << <<"a", "y">>, <<"a", "x">>, <<"a", "z">> >>

\* C15 as stated: the sorted list follows the chain folder before file,
\* sortorder ascending, sortorder before none, dated before undated, more
\* recent first, and the names as final tie-break; x, y, z sort as y, x, z.
C15_ChainWithNameTieBreak ==
    sorted.done =>
        /\ \A k, l \in DOMAIN sorted.list :
              k < l => ChainWithNames(sorted.list[k], sorted.list[l]) <= 0
        /\ ScenarioOrder

\* C15 as amended: the same chain, but two equal sortorders or two equal
\* dates are a tie that keeps the order of the input; the names decide
\* only between two nodes without sortorder and without dates.
C15_ChainWithStableTies ==
    sorted.done =>
        /\ \A k, l \in DOMAIN sorted.list :
              k < l =>
                /\ ChainWithTies(sorted.list[k], sorted.list[l]) <= 0
                /\ ChainWithTies(sorted.list[k], sorted.list[l]) = 0
                     => InputIndex(sorted.list[k]) < InputIndex(sorted.list[l])
        /\ ScenarioOrder

\* the list of x, y and z was sorted, from the order z, x, y
C15_Witness ==
    /\ sorted.done
    /\ children = << FileNode("z", <<"z">>, Undefined, Dates(1, 1, 1)),
                     FileNode("x", <<"x">>, Num(2), NoDates),
                     FileNode("y", <<"y">>, Num(1), NoDates) >>
    /\ Len(sorted.list) = 3

\* C16: the folder page and the navigation tree put the same siblings in
\* the same order.
C16_SameOrder ==
    (sorted.done /\ explorerSorted.done) =>
        [ k \in DOMAIN sorted.list |-> sorted.list[k].slug ]
          = [ k \in DOMAIN explorerSorted.list |-> NodeSlug(explorerSorted.list[k]) ]

\* no row of the list has a sortorder or dates
PlainList ==
    \A k \in DOMAIN sorted.list :
        sorted.list[k].sortorder.type = "undefined" /\ ~ sorted.list[k].dates.has

\* the list is in case-insensitive lexicographic order of the titles and
\* sorting it again leaves it as it is
LexicographicAndStable ==
    /\ \A k, l \in DOMAIN sorted.list :
          k < l => LexLE(sorted.list[k].title, sorted.list[l].title)
    /\ SortOutcomes(sorted.list, bySortOrderAndAlphabetical) = {sorted.list}

PlainNamesOfOneKind ==
    \A k, l \in DOMAIN explorerSorted.list :
        /\ explorerSorted.list[k].isFolder = explorerSorted.list[l].isFolder
        /\ explorerSorted.list[k].sortorder.type = "undefined"
        /\ ~ explorerSorted.list[k].dates.has
        /\ Range(explorerSorted.list[k].title) \cap Digits = {}

WithoutSortorder(node) == [node EXCEPT !.sortorder = Undefined]

\* C18: a sortorder of the wrong type counts as absent in both comparators:
\* the node compares like the node without sortorder, and the result is a
\* valid ordering value.
C18_MalformedIsAbsent ==
    (sorted.done /\ explorerSorted.done) =>
        \A i, j \in DOMAIN children :
            (i # j /\ children[i].sortorder.type = "string") =>
                /\ bySortOrderAndAlphabetical(PageOf(children[i]), PageOf(children[j]))
                     = bySortOrderAndAlphabetical(PageOf(WithoutSortorder(children[i])),
                                                  PageOf(children[j]))
                /\ ~ createCustomSortFn(children[i], children[j]).nan
                /\ createCustomSortFn(children[i], children[j])
                     = createCustomSortFn(WithoutSortorder(children[i]), children[j])

(***************************************************************************)
(* Claims about copyCustomizations                                         *)
(***************************************************************************)
\* the files of the overrides subtree
OverrideFiles(f) ==
    { p \in DOMAIN f : IsPrefix(OverridesDir, p) /\ p # OverridesDir /\ f[p].kind = "file" }

\* the same relative path in the framework's internal directory
OverrideDest(p) ==
    Join(QuartzRepoDir, <<"quartz">> \o SubSeq(p, Len(OverridesDir) + 1, Len(p)))

HasOverrideContent(f, p) ==
    /\ OverrideDest(p) \in DOMAIN f
    /\ f[OverrideDest(p)] = File(f[p].data)

Phase1Files(f) ==
    { p \in DOMAIN f : /\ IsPrefix(SrcDir, p)
                       /\ Len(p) > Len(SrcDir)
                       /\ p[Len(SrcDir) + 1] \notin {"quartz", "quartz_overrides"}
                       /\ f[p].kind = "file" }

Phase1Dest(p) == Join(QuartzRepoDir, SubSeq(p, Len(SrcDir) + 1, Len(p)))

\* every customization has its content in the framework checkout
Applied(f) ==
    /\ \A p \in Phase1Files(f) :
          Phase1Dest(p) \in DOMAIN f /\ f[Phase1Dest(p)] = File(f[p].data)
    /\ \A p \in OverrideFiles(f) : HasOverrideContent(f, p)

\* a debounce callback has just completed its copyCustomizations
OverlayRerun == lastPass'.seq = lastPass.seq + 1 /\ lastPass'.at = "overlay"

C21_MirrorIdempotent ==
    [][ (pc = "mirrored" /\ pc' = "remirrored" /\ log' = {})
        => BuildRoot(fs') = BuildRoot(fs) ]_vars

\* mirrorWorkspace has just returned
Mirrored == pc \in {"mirrored", "remirrored"}

\* the workspace path a path under build/ mirrors
WorkspacePath(q) == SubSeq(q, 2, Len(q))

\* C22: after mirrorWorkspace nothing under build/ is left over from before
\* the pass: every file under build/ is a copy of a current workspace file
\* that the filter does not exclude.
C22_NothingLeftOver ==
    Mirrored =>
        \A q \in DOMAIN fs :
            (IsPrefix(<<BUILD_DIR>>, q) /\ fs[q].kind = "file") =>
                /\ WorkspacePath(q) \in DOMAIN fs
                /\ fs[WorkspacePath(q)] = fs[q]
                /\ ~ Ignores(ignoreFilter, WorkspacePath(q), FALSE)

\* a copy of a file or of a directory has failed
CopyFailed == \E e \in log : e[1] \in {"copy", "copydir"}

\* the path under build/ a workspace path is mirrored to
MirrorPath(p) == Resolve(fs, Join(<<BUILD_DIR>>, p))

\* C23: after a mirrorWorkspace pass in which no copy fails, every
\* workspace file that the filter does not exclude, itself or through an
\* ancestor directory, is under build/ at the same relative path with the
\* same bytes, and every directory that is not excluded is under build/.
C23_MirrorComplete ==
    (Mirrored /\ ~ CopyFailed) =>
        \A p \in DOMAIN fs :
            /\ (fs[p].kind = "file" /\ ~ Ignores(ignoreFilter, p, FALSE))
                 => /\ MirrorPath(p) \in DOMAIN fs
                    /\ fs[MirrorPath(p)] = fs[p]
            /\ (fs[p].kind = "dir" /\ ~ Ignores(ignoreFilter, p, TRUE))
                 => /\ MirrorPath(p) \in DOMAIN fs
                    /\ fs[MirrorPath(p)].kind = "dir"

\* a pass without a failure has mirrored content/a.md and the customizations
\* while secrets/ is excluded
C23_Witness ==
    /\ pc = "mirrored"
    /\ log = {}
    /\ Ignores(ignoreFilter, <<"secrets", "key.txt">>, FALSE)
    /\ <<BUILD_DIR, "content", "a.md">> \in DOMAIN fs
    /\ fs[<<BUILD_DIR, "src", "custom.ts">>] = fs[<<"src", "custom.ts">>]

(***************************************************************************)
(* The trie, as the specification describes it (its implementation is      *)
(* imported from quartz/util): a set of nodes, each with its slug; a       *)
(* folder node has the slug of its index page. data is the slug of the     *)
(* ContentNode the node carries, or NoData.                                *)
(***************************************************************************)
NoData == <<>>

TrieNode(slug, isFolder, data) == [slug |-> slug, isFolder |-> isFolder, data |-> data]

\* the folder nodes above a slug, the root included
FolderNodesAbove(slug) ==
    { IndexOf(SubSeq(slug, 1, k)) : k \in 0 .. Len(simplifySlug(slug)) - 1 }

\* insert that attaches no data to the folder of an index page
insertWithoutIndexData(nodes, slug) ==
    With(nodes \cup { TrieNode(f, TRUE, NoData) :
                        f \in { g \in FolderNodesAbove(slug) :
                                  \A n \in nodes : ~ (n.isFolder /\ n.slug = g) } },
         LAMBDA made :
           IF slug[Len(slug)] = "index"
           THEN made \cup { TrieNode(slug, TRUE, NoData) :
                              x \in { y \in {slug} : \A n \in made : n.slug # slug } }
           ELSE made \cup { TrieNode(slug, FALSE, slug) })

\* descend the segments of the slug, creating the folder nodes that are
\* missing without data; the node of the slug gets the ContentNode
insert(nodes, slug) ==
    With(nodes \cup { TrieNode(f, TRUE, NoData) :
                        f \in { g \in FolderNodesAbove(slug) :
                                  \A n \in nodes : ~ (n.isFolder /\ n.slug = g) } },
         LAMBDA made :
           IF slug[Len(slug)] = "index"
           THEN { n \in made : ~ (n.isFolder /\ n.slug = slug) }
                  \cup { TrieNode(slug, TRUE, slug) }
           ELSE made \cup { TrieNode(slug, FALSE, slug) })

\* the trie of a collection: its slugs inserted in order
RECURSIVE fromEntries(_)
fromEntries(slugs) ==
    IF slugs = <<>> THEN { TrieNode(<<"index">>, TRUE, NoData) }
    ELSE insert(fromEntries(SubSeq(slugs, 1, Len(slugs) - 1)), slugs[Len(slugs)])

NotFound == [slug |-> <<>>, isFolder |-> FALSE, data |-> NoData]

\* findNode(path): the node reached by descending the segments; a path
\* that ends in index, and a path no file has, name the folder
findNode(nodes, path) ==
    IF \E n \in nodes : ~ n.isFolder /\ n.slug = path
    THEN CHOOSE n \in nodes : ~ n.isFolder /\ n.slug = path
    ELSE IF \E n \in nodes : n.isFolder /\ n.slug = IndexOf(simplifySlug(path))
    THEN CHOOSE n \in nodes : n.isFolder /\ n.slug = IndexOf(simplifySlug(path))
    ELSE NotFound

(***************************************************************************)
(* Claims about the trie                                                   *)
(***************************************************************************)
\* the nodes of the trie the emitter has built
BuiltTrie == fromEntries(allFiles(trie.files))

C25_ExitStatusPropagates ==
    \A e \in log :
        e[1] = "build failed" =>
            /\ pc = "failed"
            /\ \A o \in log : o[1] = "build failed" => o = e
            /\ exitStatus = e[2][2]

\* C25 without the exit code: the build is aborted at the first process
\* that fails
BuildAborted ==
    \A e \in log :
        e[1] = "build failed" =>
            /\ pc = "failed"
            /\ \A o \in log : o[1] = "build failed" => o = e
            /\ exitStatus # 0

(***************************************************************************)
(* Claims about failures that are not fatal                                *)
(***************************************************************************)
\* C26: when .gitignore cannot be read, the filter that mirrorWorkspace and
\* setupWatcher compile holds the static rules only, and the caller goes
\* on: the mirror copies every path the static rules do not exclude, and
\* the watcher is set up.
C26_FallsBackToStaticRules ==
    (gitignore = Unreadable /\ pc # "start" /\ ~args.noBuildDir) =>
        /\ ignoreFilter = StaticRules
        /\ (Mirrored /\ ~ CopyFailed) =>
               \A p \in DOMAIN fs :
                   (fs[p].kind = "file" /\ ~ Ignores(StaticRules, p, FALSE)) =>
                       /\ MirrorPath(p) \in DOMAIN fs
                       /\ fs[MirrorPath(p)] = fs[p]

C26_Witness ==
    /\ gitignore = Unreadable
    /\ pc = "watching"
    /\ ignoreFilter = StaticRules
    /\ <<BUILD_DIR, "secrets", "key.txt">> \in DOMAIN fs

\* C27: a file whose copy fails during a mirror pass is named in a warning
\* and is the only file skipped: every other file the filter does not
\* exclude is under build/ with the same bytes, and the pass returns.
C27_OnlyFailedFileSkipped ==
    (Mirrored /\ ~ \E e \in log : e[1] = "copydir") =>
        \A p \in DOMAIN fs :
            (/\ fs[p].kind = "file"
             /\ ~ Ignores(ignoreFilter, p, FALSE)
             /\ <<"copy", p>> \notin log)
                => /\ MirrorPath(p) \in DOMAIN fs
                   /\ fs[MirrorPath(p)] = fs[p]

\* the copy of src/custom.ts has failed: the entries read after it in src/
\* and the files of the other directories are mirrored
C27_Witness ==
    /\ pc = "mirrored"
    /\ log = { <<"copy", <<"src", "custom.ts">> >> }
    /\ <<BUILD_DIR, "src", "custom.ts">> \notin DOMAIN fs
    /\ fs[<<BUILD_DIR, "src", "quartz_overrides", "o.ts">>]
           = fs[<<"src", "quartz_overrides", "o.ts">>]
    /\ fs[<<BUILD_DIR, "content", "a.md">>] = fs[<<"content", "a.md">>]

(***************************************************************************)
(* Claims about the debounce callbacks                                     *)
(***************************************************************************)
\* C28: at most one debounce callback of setupWatcher is between its start
\* and the end of its last awaited step at any time.
C28_OnePassInFlight == Len(passes) <= 1

\* C29: the renderer starts a build of the build root only when every
\* batch is applied in full: no debounce callback has copied its file and
\* still has its copyCustomizations ahead.
C29_NoPartlyAppliedBatch ==
    [][ (pc = "watching" /\ pc' = "rendering")
        => \A i \in DOMAIN passes : passes[i].at # "overlay" ]_vars

\* C30: an eligible event cancels the pending timer and arms a new one for
\* itself, at most one timer is pending, and the callback that starts is
\* the one of the timer armed by the last eligible event.
C30_LastEventWins ==
    [][ /\ timers' <= 1
        /\ (timers' = 1) = debounceTimer'.armed
        /\ \A p \in WatchPaths, event \in {"add", "change", "unlink"} :
              (/\ Watching /\ isReady /\ ~closed
               /\ nEvents' = nEvents + 1
               /\ (event = "add") = (p \notin DOMAIN fs)
               /\ fs' = Edited(fs, event, p, nEvents + 1)
               /\ ~ WatcherIgnored(ignoreFilter, p))
                  => /\ debounceTimer' = [armed |-> TRUE, event |-> event, filePath |-> p]
                     /\ timers' = 1
        /\ (nPasses' = nPasses + 1)
              => /\ debounceTimer.armed
                 /\ timers' = 0
                 /\ passes'[Len(passes')].event = debounceTimer.event
                 /\ passes'[Len(passes')].filePath = debounceTimer.filePath
      ]_vars

\* a second eligible event has replaced the timer of the first
C30_Witness ==
    /\ isReady
    /\ nEvents = 2
    /\ nPasses = 0
    /\ Cardinality(window) = 2
    /\ debounceTimer.armed
    /\ timers = 1

(***************************************************************************)
(* Claims about the watch session and the ignore filter                    *)
(***************************************************************************)
\* the excluded workspace paths that have an entry under build/
ExcludedInBuild(f) ==
    { p \in DOMAIN f : /\ Ignores(ignoreFilter, p, f[p].kind = "dir")
                        /\ Join(<<BUILD_DIR>>, p) \in DOMAIN f }

\* C31: during a watch session the build root holds no path that the
\* ignore filter excludes.
C31_NoExcludedPathInBuild ==
    pc \in {"watching", "exited"} => ExcludedInBuild(fs) = {}

\* C31, the events alone: an event for an excluded path leaves the timer
\* and the window alone, and no step of the session puts a further
\* excluded path under build/
C31_ExcludedEventsDropped ==
    [][ /\ \A p \in WatchPaths :
              (/\ nEvents' = nEvents + 1
               /\ \/ (p \in DOMAIN fs) # (p \in DOMAIN fs')
                  \/ p \in DOMAIN fs /\ p \in DOMAIN fs' /\ fs'[p] # fs[p]
               /\ WatcherIgnored(ignoreFilter, p))
                  => UNCHANGED <<debounceTimer, timers, window>>
        /\ pc = "watching" => ExcludedInBuild(fs') \subseteq ExcludedInBuild(fs)
      ]_vars

(***************************************************************************)
(* Claims about the sequence of main                                       *)
(***************************************************************************)
\* C32: main enters each phase from the end of the one before it: the
\* mirror first (nothing is written with --no-build-dir), then the
\* overlay, then npm install, then the renderer; the watcher is set up
\* after the overlay, before npm install, and only with --watch or --serve
\* and without --no-build-dir. Only the mirror and the overlay write.
C32_PhasesInSequence ==
    [][ /\ (pc' = "mirrored" /\ pc' # pc) =>
              /\ pc = "start"
              /\ IF args.noBuildDir THEN fs' = fs ELSE <<BUILD_DIR>> \in DOMAIN fs'
        /\ (pc' = "overlaid" /\ pc' # pc) => pc = "mirrored"
        /\ (pc' = "watching" /\ pc' # pc) =>
              /\ pc = "overlaid"
              /\ (args.watch \/ args.serve) /\ ~args.noBuildDir
        /\ (pc' = "installed" /\ pc' # pc) =>
              pc = IF (args.watch \/ args.serve) /\ ~args.noBuildDir
                   THEN "watching" ELSE "overlaid"
        /\ (pc' = "built" /\ pc' # pc) => pc = "installed"
        /\ fs' # fs => pc \in {"start", "mirrored"}
      ]_vars

\* a watch-mode build has run through every phase
C32_Witness ==
    /\ pc = "built"
    /\ args.watch /\ ~args.noBuildDir
    /\ <<BUILD_DIR, "quartz_repo", "custom.ts">> \in DOMAIN fs

\* with --no-build-dir the overlay has written into quartz_repo itself
NoBuildDirBuilt ==
    /\ pc = "built"
    /\ args.noBuildDir /\ args.watch
    /\ <<BUILD_DIR>> \notin DOMAIN fs
    /\ <<"quartz_repo", "custom.ts">> \in DOMAIN fs

(***************************************************************************)
(* Claims about the build root during a watch session                      *)
(***************************************************************************)
\* the watcher is ready and nothing is pending: no timer is armed and no
\* debounce callback is in flight
Quiet == pc = "watching" /\ isReady /\ ~closed /\ ~debounceTimer.armed /\ passes = <<>>

\* C35: when the watcher is ready and every event that arrived has been
\* dealt with, each file that the filter does not exclude is under build/
\* as the workspace holds it, whenever it was changed after the mirror.
C35_ConsistentWhenQuiet ==
    Quiet => \A p \in WatchPaths : ~ WatcherIgnored(ignoreFilter, p) => InSync(fs, p)

\* the copy of workspace path p that copyCustomizations keeps below
\* build/quartz_repo, for a path below src/
OverlayCopy(p) == Join(QuartzRepoDir, SubSeq(p, 2, Len(p)))

\* C36: when a debounce callback for the removal of a workspace file has
\* finished, build/ holds no copy of the file: not at build/<path> and,
\* for a file below src/, not below build/quartz_repo.
C36_RemovalLeavesNoCopy ==
    [][ (Stepped /\ lastPass'.done /\ lastPass'.event = "unlink") =>
          /\ Join(<<BUILD_DIR>>, lastPass'.filePath) \notin DOMAIN fs'
          /\ lastPass'.filePath[1] = "src" =>
                OverlayCopy(lastPass'.filePath) \notin DOMAIN fs'
      ]_vars

(***************************************************************************)
(* Claims about _getFolders                                                *)
(***************************************************************************)
\* C37: for every slug the loop of _getFolders takes no more iterations
\* than the slug has segments, and what it returns is the chain of the
\* successive parents of the slug, ending with ".".
C37_GetFoldersTerminates ==
    /\ Len(parentNames) <= Len(slugArg) + 1
    /\ foldersPc = "returned" =>
          /\ parentNames[1] = pathDirname(slugArg)
          /\ \A i \in 1 .. Len(parentNames) - 1 :
                parentNames[i + 1] = pathDirname(parentNames[i])
          /\ parentNames[Len(parentNames)] = Dot

\* C37 for the slugs without a leading slash
C37_RelativeSlugsTerminate ==
    (slugArg = <<>> \/ Head(slugArg) # "/") =>
        /\ Len(parentNames) <= Len(slugArg) + 1
        /\ foldersPc = "loop" =>
              \/ gfFolderName = Dot
              \/ Len(gfFolderName) < Len(slugArg) /\ Len(parentNames) < MaxChain

(***************************************************************************)
(* Claims about the two comparators as orders                              *)
(***************************************************************************)
\* the pages CustomPageList sorts
ListedPages == allPagesInFolder(children)

\* bySortOrderAndAlphabetical is antisymmetric in sign and transitive on
\* the pages of the listed folder
ListCompareConsistent ==
    /\ \A i, j \in DOMAIN ListedPages :
          Sign(bySortOrderAndAlphabetical(ListedPages[i], ListedPages[j]))
            = 0 - Sign(bySortOrderAndAlphabetical(ListedPages[j], ListedPages[i]))
    /\ \A i, j, k \in DOMAIN ListedPages :
          (/\ bySortOrderAndAlphabetical(ListedPages[i], ListedPages[j]) <= 0
           /\ bySortOrderAndAlphabetical(ListedPages[j], ListedPages[k]) <= 0)
              => bySortOrderAndAlphabetical(ListedPages[i], ListedPages[k]) <= 0

\* createCustomSortFn returns a number, is antisymmetric in sign and
\* transitive on the children of the folder
ExplorerCompareConsistent ==
    /\ \A i, j \in DOMAIN children :
          /\ ~ createCustomSortFn(children[i], children[j]).nan
          /\ Sign(explorerCompare(children[i], children[j]))
                = 0 - Sign(explorerCompare(children[j], children[i]))
    /\ \A i, j, k \in DOMAIN children :
          (/\ explorerCompare(children[i], children[j]) <= 0
           /\ explorerCompare(children[j], children[k]) <= 0)
              => explorerCompare(children[i], children[k]) <= 0

\* C38: each of the two comparators is a consistent total preorder over
\* the siblings: the sign of cmp(a, b) is the opposite of the sign of
\* cmp(b, a), and cmp(a, b) <= 0 with cmp(b, c) <= 0 gives cmp(a, c) <= 0.
C38_ConsistentComparators == ListCompareConsistent /\ ExplorerCompareConsistent

(***************************************************************************)
(* Claims about the explorer                                               *)
(***************************************************************************)
\* the operation has a function to apply
Supplied(fn) ==
    \/ fn = "sort"
    \/ fn = "filter" /\ explorerOpts.filterFn
    \/ fn = "map" /\ explorerOpts.mapFn

\* the operations the configuration asks for and supplies, in its order
ConfiguredSequence ==
    SelectSeq(IF explorerOpts.order.given THEN explorerOpts.order.fns
              ELSE <<"filter", "map", "sort">>,
              LAMBDA fn : fn \in {"filter", "map", "sort"} /\ Supplied(fn))

\* the trees the operations ops leave, the last one applied to what the
\* ones before it left
RECURSIVE InSequence(_, _)
InSequence(data, ops) ==
    IF ops = <<>> THEN { data }
    ELSE UNION { IF ops[Len(ops)] = "filter" THEN { trieFilter(t) }
                 ELSE IF ops[Len(ops)] = "map" THEN { trieMap(t) }
                 ELSE trieSort(t) :
                 t \in InSequence(data, SubSeq(ops, 1, Len(ops) - 1)) }

\* C33: the trie setupExplorer renders is the content index after the
\* supplied operations of the configured order (filter, map, sort when no
\* order is configured), each applied to the tree the previous one left; an
\* operation without a function changes nothing
C33_OperationsInConfiguredOrder ==
    explorerTrie.done => explorerTrie.nodes \in InSequence(explorerData, ConfiguredSequence)

\* a configured order sort, map, filter with both functions supplied gave a
\* tree that the default order would not have given
C33_Witness ==
    /\ explorerTrie.done
    /\ explorerOpts.order = [given |-> TRUE, fns |-> <<"sort", "map", "filter">>]
    /\ explorerOpts.filterFn
    /\ explorerOpts.mapFn
    /\ explorerTrie.nodes \notin InSequence(explorerData, <<"filter", "map", "sort">>)

\* with no order configured and no mapFn, filter and sort were applied alone
C33_SkippedWitness ==
    /\ explorerTrie.done
    /\ ~ explorerOpts.order.given
    /\ explorerOpts.filterFn
    /\ ~ explorerOpts.mapFn
    /\ explorerTrie.nodes \in InSequence(explorerData, <<"filter", "sort">>)
    /\ explorerTrie.nodes \notin InSequence(explorerData, <<"filter", "map", "sort">>)

\* the entries of a state with the given path
EntriesOf(state, path) == { i \in DOMAIN state : state[i].path = path }

\* setupExplorer ran after the last toggleFolder, with saved state enabled
SetupAfterToggle ==
    /\ explorerOpts.useSavedState
    /\ lastToggle.n > 0
    /\ explorerTrie.at > lastToggle.at

\* C34: with saved state enabled, once toggleFolder has stored the state and
\* setupExplorer has run again, the state has an entry for every folder of
\* the new trie; the entry of a folder that was in the stored state has the
\* collapsed flag stored for it (the toggled folder: the flag the toggle
\* set), and the entry of a folder that was not has the configured default
C34_CollapsedSurvivesNavigation ==
    SetupAfterToggle =>
        /\ [ i \in DOMAIN currentExplorerState |-> currentExplorerState[i].path ]
              = getFolderPaths(explorerTrie.nodes)
        /\ \A i \in DOMAIN currentExplorerState :
              IF EntriesOf(lastToggle.state, currentExplorerState[i].path) = {}
              THEN currentExplorerState[i].collapsed
                     = (explorerOpts.folderDefaultState = "collapsed")
              ELSE \A j \in EntriesOf(lastToggle.state, currentExplorerState[i].path) :
                     currentExplorerState[i].collapsed = lastToggle.state[j].collapsed
        /\ \A i \in EntriesOf(currentExplorerState, lastToggle.path) :
              currentExplorerState[i].collapsed = lastToggle.collapsed

\* a folder was toggled away from the default, the page was navigated, and
\* the folder still has the toggled flag while a folder that was not in the
\* stored state has the default
C34_Witness ==
    /\ SetupAfterToggle
    /\ \E i \in EntriesOf(currentExplorerState, lastToggle.path) :
          /\ currentExplorerState[i].collapsed = lastToggle.collapsed
          /\ lastToggle.collapsed # (explorerOpts.folderDefaultState = "collapsed")
    /\ \E i \in DOMAIN currentExplorerState :
          EntriesOf(lastToggle.state, currentExplorerState[i].path) = {}

\* C39: currentExplorerState never holds two entries of one folder path,
\* and what a toggleFolder call leaves under the key fileTree is the
\* serialization of currentExplorerState as the call left it
C39_StateUniqueAndStored ==
    [][ /\ \A i, j \in DOMAIN currentExplorerState' :
             currentExplorerState'[i].path = currentExplorerState'[j].path => i = j
        /\ lastToggle' # lastToggle =>
             /\ localStorage'.has
             /\ Len(localStorage'.text) = Len(currentExplorerState')
             /\ jsonParse(localStorage'.text) = currentExplorerState'
             /\ \A i \in DOMAIN currentExplorerState' :
                  localStorage'.text[i]
                    = <<"path", currentExplorerState'[i].path, "collapsed",
                        IF currentExplorerState'[i].collapsed THEN "true" ELSE "false">> ]_vars

\* a folder was toggled twice and the stored item is the state of two folders
C39_Witness ==
    /\ lastToggle.n >= 2
    /\ lastToggle.at = nClicks
    /\ Len(currentExplorerState) >= 2
    /\ localStorage.has
    /\ jsonParse(localStorage.text) = currentExplorerState

=============================================================================
